---- MODULE Spec2Model ----
(***************************************************************************)
(* Model of the paper-analysis core of llm-paper-reviewer:                 *)
(*   - AIAnalysisEngine._parse_analysis_result and the normalisation,      *)
(*     degraded-result and confidence-score functions it uses              *)
(*     (src/adapters/ai/ai_analysis_engine.py);                            *)
(*   - AnalysisOrchestrator.analyze_paper, the primary/fallback state      *)
(*     machine (src/core/analyzer.py).                                     *)
(* Python strings are TLA+ strings; characters are one-character strings.  *)
(* The alphabet of the responses holds no backslash, so a JSON string      *)
(* literal has no escape sequences.                                        *)
(***************************************************************************)
EXTENDS Integers, Sequences, FiniteSets, TLC

VARIABLES
    pc,             \* position of the modelled call
    raw,            \* the raw response string handed to _parse_analysis_result
    version,        \* the prompt (schema) version
    obj,            \* what json.loads / _extract_json_from_text produced, if anything
    path,           \* which parsing path produced the outcome
    outcome,        \* "mapping" (returned), or the type of the exception raised
    result,         \* the mapping returned by the parser / given to the scorer
    conf,           \* [score, total]: _calculate_confidence_score as a fraction
    status,         \* the status of the engine's analysis
    orch,           \* the orchestrator's call: engines' behaviour, progress, returned result
    retry,          \* one call of BaseAIAdapter.with_retry: attempts, sleeps, outcome
    eng,            \* the adapter and the generation step of the engine's analyze_paper
    batch,          \* one call of AnalysisCommands.batch_analyze_papers
    cli             \* one run of a command of the CLI: options, configuration, exit code

vars == <<pc, raw, version, obj, path, outcome, result, conf, status, orch,
          retry, eng, batch, cli>>

(***************************************************************************)
(* Strings                                                                 *)
(***************************************************************************)
Ch(s, i) == SubSeq(s, i, i)

\* s[:n]
Prefix(s, n) == IF Len(s) > n THEN SubSeq(s, 1, n) ELSE s

EndsWith(s, suffix) ==
    /\ Len(s) >= Len(suffix)
    /\ SubSeq(s, Len(s) - Len(suffix) + 1, Len(s)) = suffix

Min(S) == CHOOSE x \in S : \A y \in S : x <= y
Max(S) == 0 - Min({0 - x : x \in S})

Positions(s, c) == {i \in 1..Len(s) : Ch(s, i) = c}

Whitespace == {" ", "\n", "\t", "\r"}

\* str.strip()
Strip(s) ==
    LET keep == {i \in 1..Len(s) : Ch(s, i) \notin Whitespace}
    IN  IF keep = {} THEN "" ELSE SubSeq(s, Min(keep), Max(keep))

\* text.split('\n')[0]
FirstLine(s) ==
    LET nl == Positions(s, "\n")
    IN  IF nl = {} THEN s ELSE SubSeq(s, 1, Min(nl) - 1)

RECURSIVE Rep(_, _)
Rep(s, n) ==
    IF n = 0 THEN ""
    ELSE LET half == Rep(s, n \div 2)
         IN  half \o half \o (IF n % 2 = 1 THEN s ELSE "")

(***************************************************************************)
(* Python values, as json.loads builds them.                               *)
(***************************************************************************)
VStr(s)   == [k |-> "str", s |-> s]
VInt(n)   == [k |-> "int", n |-> n]
VNone     == [k |-> "null"]
VBool(b)  == [k |-> "bool", b |-> b]
VList(xs) == [k |-> "list", items |-> xs]
\* a dict keeps its keys in insertion order, each key once
VDict(ks, vs) == [k |-> "dict", keys |-> ks, vals |-> vs]

\* bool(v)
Truthy(v) ==
    CASE v.k = "str"  -> v.s # ""
      [] v.k = "int"  -> v.n # 0
      [] v.k = "null" -> FALSE
      [] v.k = "bool" -> v.b
      [] v.k = "list" -> v.items # <<>>
      [] v.k = "dict" -> v.keys # <<>>

RECURSIVE PyRepr(_)
RECURSIVE JoinRepr(_, _)
RECURSIVE JoinItems(_, _, _)
\* ", ".join(repr(x) for x in xs), from index i
JoinRepr(xs, i) ==
    IF i > Len(xs) THEN ""
    ELSE PyRepr(xs[i]) \o (IF i < Len(xs) THEN ", " ELSE "") \o JoinRepr(xs, i + 1)
\* ", ".join(f"{k!r}: {v!r}" for k, v in d.items()), from index i
JoinItems(ks, vs, i) ==
    IF i > Len(ks) THEN ""
    ELSE "'" \o ks[i] \o "': " \o PyRepr(vs[i])
         \o (IF i < Len(ks) THEN ", " ELSE "") \o JoinItems(ks, vs, i + 1)
\* repr(v)
PyRepr(v) ==
    CASE v.k = "str"  -> "'" \o v.s \o "'"
      [] v.k = "int"  -> ToString(v.n)
      [] v.k = "null" -> "None"
      [] v.k = "bool" -> IF v.b THEN "True" ELSE "False"
      [] v.k = "list" -> "[" \o JoinRepr(v.items, 1) \o "]"
      [] v.k = "dict" -> "{" \o JoinItems(v.keys, v.vals, 1) \o "}"

\* str(v), also what an f-string puts for {v}
PyStr(v) == IF v.k = "str" THEN v.s ELSE PyRepr(v)

\* d[key] = v on a dict value: a repeated key keeps its place and takes the new value
DictSet(d, key, v) ==
    IF \E i \in 1..Len(d.keys) : d.keys[i] = key
    THEN LET i == CHOOSE j \in 1..Len(d.keys) : d.keys[j] = key
         IN  VDict(d.keys, [d.vals EXCEPT ![i] = v])
    ELSE VDict(Append(d.keys, key), Append(d.vals, v))

\* key in d
HasKey(d, key) == \E i \in 1..Len(d.keys) : d.keys[i] = key

\* d[key], for a key in d
Get(d, key) == d.vals[CHOOSE i \in 1..Len(d.keys) : d.keys[i] = key]

(***************************************************************************)
(* json.loads: the scanner of the standard decoder, character by           *)
(* character, for strings, non-negative integers, null, true, false,       *)
(* arrays and objects.  A parse yields [ok, v, i]: success, the value and  *)
(* the index after it.                                                     *)
(***************************************************************************)
JsonWhitespace == {" ", "\t", "\n", "\r"}
Digits == {"0", "1", "2", "3", "4", "5", "6", "7", "8", "9"}
ParseFail == [ok |-> FALSE, v |-> VNone, i |-> 0]
ParseOk(v, i) == [ok |-> TRUE, v |-> v, i |-> i]

DigitVal(c) ==
    CASE c = "0" -> 0 [] c = "1" -> 1 [] c = "2" -> 2 [] c = "3" -> 3 [] c = "4" -> 4
      [] c = "5" -> 5 [] c = "6" -> 6 [] c = "7" -> 7 [] c = "8" -> 8 [] c = "9" -> 9

\* the index of the first non-whitespace character at or after i (Len(s)+1 if none)
RECURSIVE SkipWs(_, _)
SkipWs(s, i) ==
    IF i > Len(s) \/ Ch(s, i) \notin JsonWhitespace THEN i ELSE SkipWs(s, i + 1)

\* a string literal whose opening quote is at i
ParseString(s, i) ==
    LET quotes == {j \in (i + 1)..Len(s) : Ch(s, j) = "\""}
    IN  IF quotes = {} THEN ParseFail
        ELSE LET close == Min(quotes)
                 body  == IF close = i + 1 THEN "" ELSE SubSeq(s, i + 1, close - 1)
             IN  IF \E j \in 1..Len(body) : Ch(body, j) \in {"\n", "\t", "\r"}
                 THEN ParseFail      \* strict mode: no control character in a string
                 ELSE ParseOk(VStr(body), close + 1)

\* the integer (0|[1-9][0-9]*) starting at i
ParseNumber(s, i) ==
    IF Ch(s, i) = "0" THEN ParseOk(VInt(0), i + 1)
    ELSE LET stop == {j \in i..Len(s) : Ch(s, j) \notin Digits}
             end  == IF stop = {} THEN Len(s) + 1 ELSE Min(stop)
             val[j \in i..end] ==
                 IF j = i THEN 0 ELSE val[j - 1] * 10 + DigitVal(Ch(s, j - 1))
         IN  ParseOk(VInt(val[end]), end)

RECURSIVE ParseValue(_, _)
RECURSIVE ParseMembers(_, _, _)
RECURSIVE ParseElems(_, _, _)

\* the members of an object, the next key's opening quote expected at i
ParseMembers(s, i, d) ==
    IF i > Len(s) \/ Ch(s, i) # "\"" THEN ParseFail
    ELSE LET key == ParseString(s, i)
         IN  IF ~key.ok THEN ParseFail
             ELSE LET c == SkipWs(s, key.i)
                  IN  IF c > Len(s) \/ Ch(s, c) # ":" THEN ParseFail
                      ELSE LET val == ParseValue(s, SkipWs(s, c + 1))
                           IN  IF ~val.ok THEN ParseFail
                               ELSE LET e  == SkipWs(s, val.i)
                                        d2 == DictSet(d, key.v.s, val.v)
                                    IN  IF e > Len(s) THEN ParseFail
                                        ELSE IF Ch(s, e) = "}" THEN ParseOk(d2, e + 1)
                                        ELSE IF Ch(s, e) = ","
                                             THEN ParseMembers(s, SkipWs(s, e + 1), d2)
                                        ELSE ParseFail

\* the elements of an array, the first at i
ParseElems(s, i, xs) ==
    LET val == ParseValue(s, i)
    IN  IF ~val.ok THEN ParseFail
        ELSE LET e == SkipWs(s, val.i)
             IN  IF e > Len(s) THEN ParseFail
                 ELSE IF Ch(s, e) = "]" THEN ParseOk(VList(Append(xs, val.v)), e + 1)
                 ELSE IF Ch(s, e) = ","
                      THEN ParseElems(s, SkipWs(s, e + 1), Append(xs, val.v))
                 ELSE ParseFail

\* scan_once at index i
ParseValue(s, i) ==
    IF i > Len(s) THEN ParseFail
    ELSE LET c == Ch(s, i)
         IN  CASE c = "\"" -> ParseString(s, i)
               [] c = "{" ->
                    LET j == SkipWs(s, i + 1)
                    IN  IF j <= Len(s) /\ Ch(s, j) = "}"
                        THEN ParseOk(VDict(<<>>, <<>>), j + 1)
                        ELSE ParseMembers(s, j, VDict(<<>>, <<>>))
               [] c = "[" ->
                    LET j == SkipWs(s, i + 1)
                    IN  IF j <= Len(s) /\ Ch(s, j) = "]"
                        THEN ParseOk(VList(<<>>), j + 1)
                        ELSE ParseElems(s, j, <<>>)
               [] c = "n" /\ SubSeq(s, i, Min({Len(s), i + 3})) = "null" -> ParseOk(VNone, i + 4)
               [] c = "t" /\ SubSeq(s, i, Min({Len(s), i + 3})) = "true" -> ParseOk(VBool(TRUE), i + 4)
               [] c = "f" /\ SubSeq(s, i, Min({Len(s), i + 4})) = "false" -> ParseOk(VBool(FALSE), i + 5)
               [] c \in Digits -> ParseNumber(s, i)
               [] OTHER -> ParseFail

\* json.loads(s): [ok, v]; ~ok is JSONDecodeError (no value, or extra data after it)
JsonLoads(s) ==
    LET r == ParseValue(s, SkipWs(s, 1))
    IN  IF r.ok /\ SkipWs(s, r.i) > Len(s) THEN [ok |-> TRUE, v |-> r.v]
        ELSE [ok |-> FALSE, v |-> VNone]

(***************************************************************************)
(* The result mapping (a Python dict from field names to str or None) is   *)
(* a function from the field names present to [none, s].                   *)
(***************************************************************************)
MStr(s) == [none |-> FALSE, s |-> s]
MNone   == [none |-> TRUE, s |-> ""]
EmptyMapping == [f \in {} |-> MNone]

\* an exception of the given type leaves the function
Raised(exc) == [raised |-> TRUE, exc |-> exc, none |-> TRUE, s |-> "", m |-> EmptyMapping]
\* the function returns the string s, or None
Returned(s) == [raised |-> FALSE, exc |-> "", none |-> FALSE, s |-> s, m |-> EmptyMapping]
ReturnedNone == [raised |-> FALSE, exc |-> "", none |-> TRUE, s |-> "", m |-> EmptyMapping]
\* the function returns the mapping m
ReturnedMap(m) == [raised |-> FALSE, exc |-> "", none |-> FALSE, s |-> "", m |-> m]

\* field_mapping
FieldMapping(field) ==
    CASE field = "title"                 -> <<"title">>
      [] field = "summary"               -> <<"summary", "paper_overview", "overview">>
      [] field = "problem"               -> <<"problem", "research_problem", "challenge">>
      [] field = "solution"              -> <<"solution", "methodology", "method", "approach">>
      [] field = "limitations"           -> <<"limitations", "limitations_analysis", "weaknesses">>
      [] field = "key_contributions"     -> <<"key_contributions", "contributions", "academic_contributions">>
      [] field = "research_significance" -> <<"research_significance", "significance", "impact">>
      [] OTHER                           -> <<field>>

BaseFields == <<"title", "summary", "problem", "solution", "limitations", "key_contributions">>

\* expected_fields
ExpectedFields(prompt_version) ==
    IF EndsWith(prompt_version, "_2_0")
    THEN Append(BaseFields, "research_significance")
    ELSE BaseFields

GeneratedTitleMax == 100
BasicTitleMax == 100
BasicSummaryMax == 500
MinScoredLen == 20

IsSubstring(needle, hay) ==
    \E i \in 1..(Len(hay) - Len(needle) + 1) : SubSeq(hay, i, i + Len(needle) - 1) = needle

\* `key in r` for a str, list or dict r
Contains(r, key) ==
    CASE r.k = "dict" -> HasKey(r, key)
      [] r.k = "list" -> \E i \in 1..Len(r.items) : r.items[i] = VStr(key)
      [] r.k = "str"  -> IsSubstring(key, r.s)

\* r.get(key, default) on a dict r
DictGet(r, key, default) == IF HasKey(r, key) THEN Get(r, key) ELSE default

\* the lambdas of field_strategies
FieldStrategy(field, r) ==
    CASE field = "title" ->
            IF r.k # "dict" THEN Raised("AttributeError")
            ELSE LET sm == DictGet(r, "summary", VNone)
                 IN  IF ~Truthy(sm) THEN ReturnedNone
                     ELSE IF sm.k = "str" THEN Returned(Prefix(sm.s, GeneratedTitleMax) \o "...")
                     ELSE Raised("TypeError")   \* a number, a list or a dict is sliced and added to "..."
      [] field = "summary" ->
            IF r.k # "dict" THEN Raised("AttributeError")
            ELSE Returned("This paper addresses "
                          \o PyStr(DictGet(r, "problem", VStr("a research challenge")))
                          \o " using "
                          \o PyStr(DictGet(r, "solution", VStr("a novel approach")))
                          \o ".")
      [] field = "problem"               -> Returned("Research problem not explicitly stated.")
      [] field = "solution"              -> Returned("Solution approach not explicitly described.")
      [] field = "limitations"           -> Returned("Limitations not explicitly discussed.")
      [] field = "key_contributions"     -> Returned("Contributions not explicitly summarized.")
      [] field = "research_significance" -> Returned("Research significance not explicitly stated.")

StrategyFields == {"title", "summary", "problem", "solution", "limitations",
                   "key_contributions", "research_significance"}

\* _generate_field_value with strategies for title and summary only
GenerateFieldValueTitleSummaryOnly(field, r) ==
    IF field \in {"title", "summary"} THEN FieldStrategy(field, r) ELSE ReturnedNone

\* _generate_field_value
GenerateFieldValue(field, r) ==
    IF field \in StrategyFields THEN FieldStrategy(field, r) ELSE ReturnedNone

\* the alias loop stopping at the first alias that is present, empty or not
RECURSIVE FindValueFirstPresent(_, _, _)
FindValueFirstPresent(r, aliases, i) ==
    IF i > Len(aliases) THEN ReturnedNone
    ELSE IF r.k \in {"int", "null", "bool"} THEN Raised("TypeError")
    ELSE IF ~Contains(r, aliases[i]) THEN FindValueFirstPresent(r, aliases, i + 1)
    ELSE IF r.k # "dict" THEN Raised("TypeError")
    ELSE IF Truthy(Get(r, aliases[i])) THEN Returned(PyStr(Get(r, aliases[i])))
    ELSE ReturnedNone

\* the inner loop of _normalize_analysis_result over the aliases of one field, from
\* alias i: the str() of the first value that is present and true, None if there is none
RECURSIVE FindValue(_, _, _)
FindValue(r, aliases, i) ==
    IF i > Len(aliases) THEN ReturnedNone
    ELSE IF r.k \in {"int", "null", "bool"} THEN Raised("TypeError")   \* `in` on a non-iterable
    ELSE IF ~Contains(r, aliases[i]) THEN FindValue(r, aliases, i + 1)
    ELSE IF r.k # "dict" THEN Raised("TypeError")     \* a str or list indexed by a str
    ELSE IF Truthy(Get(r, aliases[i])) THEN Returned(PyStr(Get(r, aliases[i])))
    ELSE FindValue(r, aliases, i + 1)

\* one round of the loop over expected_fields: the value stored for the field
ResolveField(field, r) ==
    LET found == FindValue(r, FieldMapping(field), 1)
    IN  IF found.raised THEN found
        ELSE IF ~found.none /\ found.s # "" THEN found
        ELSE LET gen == GenerateFieldValue(field, r)
             IN  IF gen.raised THEN gen
                 ELSE IF gen.none THEN Returned("")     \* value or ""
                 ELSE gen

RECURSIVE NormalizeFrom(_, _, _, _)
NormalizeFrom(r, fields, i, normalized) ==
    IF i > Len(fields) THEN ReturnedMap(normalized)
    ELSE LET value == ResolveField(fields[i], r)
         IN  IF value.raised THEN value
             ELSE NormalizeFrom(r, fields, i + 1, (fields[i] :> MStr(value.s)) @@ normalized)

\* _normalize_analysis_result
NormalizeAnalysisResult(r, prompt_version) ==
    NormalizeFrom(r, ExpectedFields(prompt_version), 1, EmptyMapping)

\* _extract_json_from_text: [ok, v]; ~ok is the ValueError
ExtractJsonFromText(text) ==
    LET opens == Positions(text, "{")
    IN  IF opens = {} THEN [ok |-> FALSE, v |-> VNone]
        ELSE LET closes == {j \in Positions(text, "}") : j > Min(opens)}
             IN  IF closes = {} THEN [ok |-> FALSE, v |-> VNone]
                 ELSE JsonLoads(SubSeq(text, Min(opens), Max(closes)))

\* _create_basic_result_from_text
CreateBasicResultFromText(text) ==
    LET first_line == Strip(FirstLine(text))
    IN  [title |-> MStr(IF first_line # "" THEN Prefix(first_line, BasicTitleMax) ELSE "Untitled"),
         summary |-> MStr(IF Len(text) > BasicSummaryMax
                          THEN Prefix(text, BasicSummaryMax) \o "..." ELSE text),
         problem |-> MStr("Unable to extract specific problem statement"),
         solution |-> MStr("Unable to extract specific solution"),
         limitations |-> MStr("Unable to extract limitations"),
         key_contributions |-> MStr("Unable to extract contributions"),
         research_significance |-> MNone]

\* _parse_analysis_result: what it returns or raises, the parsed object it normalised
\* and the path taken
ParseAnalysisResult(text, prompt_version) ==
    LET whole == JsonLoads(text)
    IN  IF whole.ok
        THEN [n |-> NormalizeAnalysisResult(whole.v, prompt_version),
              obj |-> whole.v, path |-> "whole"]
        ELSE LET json_data == ExtractJsonFromText(text)
                 n == NormalizeAnalysisResult(json_data.v, prompt_version)
             IN  IF json_data.ok /\ ~n.raised
                 THEN [n |-> n, obj |-> json_data.v, path |-> "embedded"]
                 ELSE [n |-> ReturnedMap(CreateBasicResultFromText(text)),
                       obj |-> VNone, path |-> "degraded"]

ScoredFields == <<"title", "summary", "problem", "solution", "limitations", "key_contributions">>
\* weights, in hundredths
Weights == <<15, 25, 15, 20, 10, 15>>
SignificanceWeight == 10

\* `field in result and result[field]`
MTruthy(m, field) == field \in DOMAIN m /\ ~m[field].none /\ m[field].s # ""

\* the loop over the weighted fields counting a field of 20 characters too
RECURSIVE SumScoreAtLeast(_, _)
SumScoreAtLeast(m, i) ==
    IF i > Len(ScoredFields) THEN [score |-> 0, total |-> 0]
    ELSE LET rest == SumScoreAtLeast(m, i + 1)
             earned == IF MTruthy(m, ScoredFields[i]) /\ Len(m[ScoredFields[i]].s) >= MinScoredLen
                       THEN Weights[i] ELSE 0
         IN  [score |-> earned + rest.score, total |-> Weights[i] + rest.total]

\* the loop of _calculate_confidence_score over the six weighted fields
RECURSIVE SumScore(_, _)
SumScore(m, i) ==
    IF i > Len(ScoredFields) THEN [score |-> 0, total |-> 0]
    ELSE LET rest == SumScore(m, i + 1)
             earned == IF MTruthy(m, ScoredFields[i]) /\ Len(m[ScoredFields[i]].s) > MinScoredLen
                       THEN Weights[i] ELSE 0
         IN  [score |-> earned + rest.score, total |-> Weights[i] + rest.total]

\* _calculate_confidence_score, as the fraction score / total_weight (0.0 is 0/1)
CalculateConfidenceScore(m) ==
    LET six == SumScore(m, 1)
        all == IF MTruthy(m, "research_significance")
               THEN [score |-> six.score + SignificanceWeight,
                     total |-> six.total + SignificanceWeight]
               ELSE six
    IN  IF all.total > 0 THEN all ELSE [score |-> 0, total |-> 1]

(***************************************************************************)
(* The responses the engine is run on.  An object's text is written as     *)
(* json.dumps writes it; the keys are canonical names and aliases; the     *)
(* values are short, empty and long strings and a number.                  *)
(***************************************************************************)
MaxPairs == 2

LongText == Rep("lorem ", 5)                \* 30 characters
VeryLongText == Rep("long summary ", 10)    \* 130 characters

InputKeys == <<"title", "summary", "paper_overview", "overview", "problem",
               "research_problem", "methodology", "limitations", "contributions",
               "significance">>
InputValues == <<"\"X\"", "\"\"", "\"" \o LongText \o "\"", "5">>

\* the pair lists of at most n pairs, keys in the order of InputKeys, each at most once
RECURSIVE PairLists(_)
PairLists(n) ==
    IF n = 0 THEN {<<>>}
    ELSE LET shorter == PairLists(n - 1)
         IN  shorter \cup
             UNION {{Append(q, <<ki, vi>>) :
                        ki \in {j \in 1..Len(InputKeys) : Len(q) = 0 \/ j > q[Len(q)][1]},
                        vi \in 1..Len(InputValues)} :
                    q \in {r \in shorter : Len(r) = n - 1}}

RECURSIVE MembersText(_, _)
MembersText(q, i) ==
    IF i > Len(q) THEN ""
    ELSE "\"" \o InputKeys[q[i][1]] \o "\": " \o InputValues[q[i][2]]
         \o (IF i < Len(q) THEN ", " ELSE "") \o MembersText(q, i + 1)

ObjectText(q) == "{" \o MembersText(q, 1) \o "}"

ObjectTexts == {ObjectText(q) : q \in PairLists(MaxPairs)}

\* responses that are not one object written by json.dumps
OtherResponses ==
    {"", "   ", "hello", "\nfirst line after a blank one\nsecond", "a } b { c",
     "  padded title  \nbody", Rep("w", 600), Rep("t", 120) \o "\nrest",
     "[1]", "[]", "5", "0", "null", "true", "\"title\"", "\"x\"", "[\"title\"]",
     "{\"summary\": null}", "{\"summary\": [1]}", "{\"summary\": {\"a\": 1}}",
     "{\"summary\": \"" \o VeryLongText \o "\"}",
     "{\"title\": \"T\", \"problem\": [\"p\"], \"solution\": null}",
     "{\"title\": \"A\", \"title\": \"\"}",
     "{\"a\": 1} {\"b\": 2}", "\n {\"other\": \"X\", \"overview\": \"O\"}\n",
     "{\"title\": \"T\", \"summary\": \"" \o LongText \o "\", \"problem\": \"" \o LongText
        \o "\", \"solution\": \"" \o LongText \o "\", \"limitations\": \"" \o LongText
        \o "\", \"key_contributions\": \"" \o LongText \o "\", \"impact\": \"I\"}"}

\* an object as the whole response, inside prose, and cut short
Framings(t) ==
    {t, "Here is the analysis: " \o t \o " Hope it helps.", SubSeq(t, 1, Len(t) - 1)}

RawResponses == OtherResponses \cup UNION {Framings(t) : t \in ObjectTexts}

Versions == {"EN", "EN_2_0"}

(***************************************************************************)
(* AIAnalysisEngine.analyze_paper from the parse of the response on.       *)
(***************************************************************************)
NoResult == EmptyMapping
NoConf == [score |-> 0, total |-> 1]
NoOrch == [phase |-> "idle"]
NoRetry == [phase |-> "idle"]
NoEng == [phase |-> "idle"]
NoBatch == [phase |-> "idle"]
NoCli == [phase |-> "idle"]

NormInit ==
    /\ pc = "start"
    /\ raw \in RawResponses
    /\ version \in Versions
    /\ obj = VNone
    /\ path = "none"
    /\ outcome = "none"
    /\ result = NoResult
    /\ conf = NoConf
    /\ status = "in_progress"
    /\ orch = NoOrch
    /\ retry = NoRetry /\ eng = NoEng /\ batch = NoBatch /\ cli = NoCli

\* parsed_result = self._parse_analysis_result(result, analysis.prompt_version)
ParseStep ==
    /\ pc = "start"
    /\ LET p == ParseAnalysisResult(raw, version)
       IN  /\ obj' = p.obj
           /\ path' = p.path
           /\ IF p.n.raised
              THEN /\ outcome' = p.n.exc
                   /\ result' = NoResult
                   /\ pc' = "raised"
              ELSE /\ outcome' = "mapping"
                   /\ result' = p.n.m
                   /\ pc' = "parsed"
    /\ UNCHANGED <<raw, version, conf, status, orch, retry, eng, batch, cli>>

\* the fields are assigned, the status set and the confidence score computed
UpdateStep ==
    /\ pc = "parsed"
    /\ conf' = CalculateConfidenceScore(result)
    /\ status' = "completed"
    /\ pc' = "done"
    /\ UNCHANGED <<raw, version, obj, path, outcome, result, orch, retry, eng, batch, cli>>

\* except Exception: the failed analysis is returned
ExceptStep ==
    /\ pc = "raised"
    /\ status' = "failed"
    /\ pc' = "done"
    /\ UNCHANGED <<raw, version, obj, path, outcome, result, conf, orch, retry, eng, batch, cli>>

NormNext == ParseStep \/ UpdateStep \/ ExceptStep

SpecNorm == NormInit /\ [][NormNext]_vars

(***************************************************************************)
(* Claims about the parser and normaliser, under SpecNorm.                 *)
(***************************************************************************)
Enhanced == EndsWith(version, "_2_0")
Parsed == pc \in {"parsed", "done"} /\ outcome = "mapping"
\* the mapping is the normalisation of the parsed object obj
Normalised == Parsed /\ path \in {"whole", "embedded"}

\* key is in the parsed object with a non-empty (true) value
PresentNonEmpty(key) == HasKey(obj, key) /\ Truthy(Get(obj, key))
\* the positions, in the alias list of the field, of the aliases present and non-empty
PresentAliases(field) ==
    {i \in 1..Len(FieldMapping(field)) : PresentNonEmpty(FieldMapping(field)[i])}
RequiredFields == {ExpectedFields(version)[i] : i \in 1..Len(ExpectedFields(version))}

\* C1: _parse_analysis_result returns a mapping for every response and version: it never
\* raises, and the analysis never fails because of the parse.
C1_ParseIsTotal ==
    pc # "start" => outcome = "mapping" /\ status # "failed"

\* C2: every field the version requires is in the returned mapping with a non-empty
\* string value, for every response and version.
C2_RequiredFieldsNonEmpty ==
    Parsed => \A f \in RequiredFields :
                 f \in DOMAIN result /\ ~result[f].none /\ result[f].s # ""

\* C3: each field of the normalised mapping whose alias list has a key present with a
\* non-empty value holds the value (str) of the first such key of the list, so an empty
\* alias is skipped and the canonical key, the head of the list, wins.
C3_AliasResolution ==
    Normalised =>
        \A f \in RequiredFields :
            PresentAliases(f) # {} =>
                result[f] = MStr(PyStr(Get(obj, FieldMapping(f)[Min(PresentAliases(f))])))

\* an empty canonical summary was skipped and the alias paper_overview taken
C3_Witness ==
    /\ Normalised
    /\ HasKey(obj, "summary") /\ ~Truthy(Get(obj, "summary"))
    /\ PresentNonEmpty("paper_overview")
    /\ result["summary"] = MStr("X")

Placeholder(field) ==
    CASE field = "problem"               -> "Research problem not explicitly stated."
      [] field = "solution"              -> "Solution approach not explicitly described."
      [] field = "limitations"           -> "Limitations not explicitly discussed."
      [] field = "key_contributions"     -> "Contributions not explicitly summarized."
      [] field = "research_significance" -> "Research significance not explicitly stated."
PlaceholderFields == {"problem", "solution", "limitations", "key_contributions",
                      "research_significance"}

\* C4: a field among problem, solution, limitations, key_contributions and
\* research_significance that has no non-empty alias in the parsed object is given its
\* fixed placeholder sentence by _generate_field_value, whatever other keys the object
\* holds, and the normalised mapping holds that sentence for every such field the
\* version requires.
C4_FallbackSynthesis ==
    Normalised =>
        \A f \in PlaceholderFields :
            PresentAliases(f) = {} =>
                /\ GenerateFieldValue(f, obj) = Returned(Placeholder(f))
                /\ f \in RequiredFields => result[f] = MStr(Placeholder(f))

\* problem has no alias while other fields are present, and it got the placeholder
C4_Witness ==
    /\ Normalised
    /\ PresentAliases("problem") = {}
    /\ PresentAliases("title") # {} /\ PresentAliases("limitations") # {}
    /\ result["problem"] = MStr("Research problem not explicitly stated.")
    /\ ~Enhanced

\* C5: research_significance is a key of the returned mapping exactly when the version
\* ends with _2_0, and then its value is a non-empty string, on every parsing path.
C5_SignificanceIffEnhanced ==
    Parsed =>
        /\ ("research_significance" \in DOMAIN result) <=> Enhanced
        /\ Enhanced => MTruthy(result, "research_significance")

(***************************************************************************)
(* _calculate_confidence_score on any mapping: each weighted field absent, *)
(* empty, of exactly 20 characters or of 21; research_significance absent, *)
(* None, empty or a string.                                                *)
(***************************************************************************)
FieldChoices ==
    <<MStr(""), MStr(Rep("x", MinScoredLen)), MStr(Rep("x", MinScoredLen + 1))>>
SignificanceChoices == <<MNone, MStr(""), MStr("R")>>
AllFields == {"title", "summary", "problem", "solution", "limitations", "key_contributions",
              "research_significance"}
\* choice 0 leaves the key out
ChoiceOf(field, c) ==
    IF field = "research_significance" THEN SignificanceChoices[c] ELSE FieldChoices[c]
Mappings ==
    {[f \in {x \in AllFields : g[x] # 0} |-> ChoiceOf(f, g[f])] : g \in [AllFields -> 0..3]}

ScoreInit ==
    /\ pc = "to_score"
    /\ raw = ""
    /\ version = "EN_2_0"
    /\ obj = VNone
    /\ path = "none"
    /\ outcome = "mapping"
    /\ result \in Mappings
    /\ conf = NoConf
    /\ status = "in_progress"
    /\ orch = NoOrch
    /\ retry = NoRetry /\ eng = NoEng /\ batch = NoBatch /\ cli = NoCli

\* analysis.metrics.confidence_score = self._calculate_confidence_score(parsed_result)
ScoreStep ==
    /\ pc = "to_score"
    /\ conf' = CalculateConfidenceScore(result)
    /\ pc' = "scored"
    /\ UNCHANGED <<raw, version, obj, path, outcome, result, status, orch, retry, eng, batch, cli>>

ScoreNext == ScoreStep

SpecScore == ScoreInit /\ [][ScoreNext]_vars

\* the field is in the mapping with a string longer than 20 characters
LongField(f) == f \in DOMAIN result /\ ~result[f].none /\ Len(result[f].s) > 20
SignificancePresent ==
    /\ "research_significance" \in DOMAIN result
    /\ ~result["research_significance"].none
    /\ result["research_significance"].s # ""
Earns(f, w) == IF LongField(f) THEN w ELSE 0

\* C6: the confidence score is in [0,1]; it is 1 when the six weighted fields are longer
\* than 20 characters and research_significance is present and non-empty, and 0 for the
\* empty mapping; only fields longer than 20 characters earn their weight, and the
\* significance weight of 0.10 is in the denominator only when significance is present.
C6_ConfidenceBounds ==
    pc = "scored" =>
        /\ conf.total > 0 /\ 0 <= conf.score /\ conf.score <= conf.total
        /\ (SignificancePresent /\ \A f \in AllFields \ {"research_significance"} : LongField(f))
               => conf.score = conf.total
        /\ DOMAIN result = {} => conf.score = 0
        /\ conf.total = 100 + (IF SignificancePresent THEN 10 ELSE 0)
        /\ conf.score = Earns("title", 15) + Earns("summary", 25) + Earns("problem", 15)
                        + Earns("solution", 20) + Earns("limitations", 10)
                        + Earns("key_contributions", 15)
                        + (IF SignificancePresent THEN 10 ELSE 0)

\* a full mapping scored 1, the denominator holding the significance weight
C6_Witness ==
    /\ pc = "scored"
    /\ SignificancePresent
    /\ \A f \in AllFields \ {"research_significance"} : LongField(f)
    /\ conf = [score |-> 110, total |-> 110]

(***************************************************************************)
(* AnalysisOrchestrator.analyze_paper.  An engine's analyze_paper is the   *)
(* environment: once awaited it returns an analysis for the paper or       *)
(* raises an exception with some message.                                  *)
(***************************************************************************)
PaperIds == {"paper_a", "paper_b"}
ErrorMessages == {"", "timeout", "rate limit", "Failed to generate analysis: HTTP 500"}

\* PaperAnalysis(...): the fields the orchestrator and its callers read
Analysis(paper_id, title, summary, st, raw_response, error_message) ==
    [paper_id |-> paper_id, title |-> title, summary |-> summary, problem |-> "",
     solution |-> "", limitations |-> "", key_contributions |-> "", status |-> st,
     raw_response |-> raw_response, error_message |-> error_message]

NoAnalysis == Analysis("", "", "", "pending", MNone, MNone)

\* the PaperAnalysis built in the except branches: status FAILED and the message
FailedAnalysis(paper_id, message) ==
    Analysis(paper_id, "Analysis Failed", "", "failed", MNone, MStr(message))

\* what an engine may return for the paper: a completed analysis with or without a raw
\* response, or an analysis it marked failed itself
EngineResults(paper_id) ==
    {Analysis(paper_id, "T", "S", "completed", rr, MNone) :
        rr \in {MNone, MStr(""), MStr("{\"title\": \"T\"}")}}
    \cup {FailedAnalysis(paper_id, m) : m \in ErrorMessages}

\* fallback_result.raw_response = f"FALLBACK ANALYSIS (Primary failed: ...)\n\n{... or ''}"
AnnotateFallbackDroppingRaw(r, primary_error) ==
    [r EXCEPT !.raw_response =
        MStr("FALLBACK ANALYSIS (Primary failed: " \o primary_error \o ")\n\n")]

AnnotateFallback(r, primary_error) ==
    [r EXCEPT !.raw_response =
        MStr("FALLBACK ANALYSIS (Primary failed: " \o primary_error \o ")\n\n"
             \o (IF r.raw_response.none THEN "" ELSE r.raw_response.s))]

\* the primary's result returned with the fallback note in it
OnPrimarySuccessAnnotated(r) == AnnotateFallback(r, "")

\* return await self.primary_engine.analyze_paper(paper)
OnPrimarySuccess(r) == r

\* the no-fallback branch losing the message
PrimaryOnlyFailureNoMessage(paper_id, primary_error) ==
    [FailedAnalysis(paper_id, primary_error) EXCEPT !.error_message = MNone]

\* no fallback available: error_message=str(primary_error)
PrimaryOnlyFailure(paper_id, primary_error) == FailedAnalysis(paper_id, primary_error)

\* the double failure reporting the fallback's error only
BothFailureFallbackOnly(paper_id, primary_error, fallback_error) ==
    FailedAnalysis(paper_id, "Fallback: " \o fallback_error)

\* error_message=f"Primary: {str(primary_error)}, Fallback: {str(fallback_error)}"
BothFailure(paper_id, primary_error, fallback_error) ==
    FailedAnalysis(paper_id, "Primary: " \o primary_error \o ", Fallback: " \o fallback_error)

OrchInit ==
    /\ pc = "orchestrator"
    /\ raw = ""
    /\ version = "EN_2_0"
    /\ obj = VNone
    /\ path = "none"
    /\ outcome = "none"
    /\ result = NoResult
    /\ conf = NoConf
    /\ status = "in_progress"
    /\ \E pid \in PaperIds, fb \in BOOLEAN :
          orch = [phase |-> "invoked", paper_id |-> pid, has_fallback |-> fb,
                  primary_calls |-> 0, fallback_calls |-> 0,
                  primary_outcome |-> "none", primary_result |-> NoAnalysis,
                  primary_error |-> "",
                  fallback_outcome |-> "none", fallback_result |-> NoAnalysis,
                  fallback_error |-> "",
                  returned |-> NoAnalysis, returns |-> 0]
    /\ retry = NoRetry /\ eng = NoEng /\ batch = NoBatch /\ cli = NoCli

OrchUnchanged ==
    UNCHANGED <<pc, raw, version, obj, path, outcome, result, conf, status,
                retry, eng, batch, cli>>

\* try: await self.primary_engine.analyze_paper(paper)
InvokePrimary ==
    /\ orch.phase = "invoked"
    /\ orch' = [orch EXCEPT !.phase = "primary-attempt", !.primary_calls = @ + 1]
    /\ OrchUnchanged

\* the primary's return followed by an invocation of the fallback all the same
PrimaryReturnsInvokingFallback ==
    /\ orch.phase = "primary-attempt"
    /\ \E r \in EngineResults(orch.paper_id) :
          orch' = [orch EXCEPT !.phase = IF orch.has_fallback THEN "fallback-attempt"
                                         ELSE "terminal",
                               !.primary_outcome = "returned", !.primary_result = r,
                               !.returned = OnPrimarySuccess(r),
                               !.fallback_calls = IF orch.has_fallback THEN @ + 1 ELSE @,
                               !.returns = IF orch.has_fallback THEN @ ELSE @ + 1]
    /\ OrchUnchanged

\* the primary returns r: r is returned
PrimaryReturns ==
    /\ orch.phase = "primary-attempt"
    /\ \E r \in EngineResults(orch.paper_id) :
          orch' = [orch EXCEPT !.phase = "terminal", !.primary_outcome = "returned",
                               !.primary_result = r, !.returned = OnPrimarySuccess(r),
                               !.returns = @ + 1]
    /\ OrchUnchanged

\* the primary raises and self.fallback_engine is set: the fallback is awaited
PrimaryRaisesWithFallback ==
    /\ orch.phase = "primary-attempt"
    /\ orch.has_fallback
    /\ \E m \in ErrorMessages :
          orch' = [orch EXCEPT !.phase = "fallback-attempt", !.primary_outcome = "raised",
                               !.primary_error = m, !.fallback_calls = @ + 1]
    /\ OrchUnchanged

\* the primary raises and there is no fallback: a failed analysis is returned
PrimaryRaisesNoFallback ==
    /\ orch.phase = "primary-attempt"
    /\ ~orch.has_fallback
    /\ \E m \in ErrorMessages :
          orch' = [orch EXCEPT !.phase = "terminal", !.primary_outcome = "raised",
                               !.primary_error = m,
                               !.returned = PrimaryOnlyFailure(orch.paper_id, m),
                               !.returns = @ + 1]
    /\ OrchUnchanged

\* the fallback returns r: r is returned with the note in raw_response
FallbackReturns ==
    /\ orch.phase = "fallback-attempt"
    /\ \E r \in EngineResults(orch.paper_id) :
          orch' = [orch EXCEPT !.phase = "terminal", !.fallback_outcome = "returned",
                               !.fallback_result = r,
                               !.returned = AnnotateFallback(r, orch.primary_error),
                               !.returns = @ + 1]
    /\ OrchUnchanged

\* the fallback raises too: a failed analysis naming both errors is returned
FallbackRaises ==
    /\ orch.phase = "fallback-attempt"
    /\ \E f \in ErrorMessages :
          orch' = [orch EXCEPT !.phase = "terminal", !.fallback_outcome = "raised",
                               !.fallback_error = f,
                               !.returned = BothFailure(orch.paper_id, orch.primary_error, f),
                               !.returns = @ + 1]
    /\ OrchUnchanged

OrchNext ==
    \/ InvokePrimary
    \/ PrimaryReturns
    \/ PrimaryRaisesWithFallback
    \/ PrimaryRaisesNoFallback
    \/ FallbackReturns
    \/ FallbackRaises

SpecOrch == OrchInit /\ [][OrchNext]_vars

Terminal == orch.phase = "terminal"
OtherFields == {"paper_id", "title", "summary", "problem", "solution", "limitations",
                "key_contributions", "status", "error_message"}

\* C7: when the primary returns, the orchestrator returns that result with every field
\* as the primary gave it (no fallback note in raw_response) and the fallback is never
\* invoked, with or without a fallback configured.
C7_PrimarySuccessUnmodified ==
    (Terminal /\ orch.primary_outcome = "returned") =>
        /\ orch.returned = orch.primary_result
        /\ orch.fallback_calls = 0 /\ orch.fallback_outcome = "none"

\* the primary returned an analysis while a fallback was configured
C7_Witness ==
    /\ Terminal /\ orch.primary_outcome = "returned" /\ orch.has_fallback
    /\ orch.returned.status = "completed"
    /\ orch.returned.raw_response = MStr("{\"title\": \"T\"}")

\* C8: when the primary raises with message m and no fallback is configured, a result
\* for the same paper is returned with status failed and error_message m.
C8_NoFallbackFailure ==
    (Terminal /\ orch.primary_outcome = "raised" /\ ~orch.has_fallback) =>
        /\ orch.returned.paper_id = orch.paper_id
        /\ orch.returned.status = "failed"
        /\ orch.returned.error_message = MStr(orch.primary_error)
        /\ orch.fallback_calls = 0

C8_Witness ==
    /\ Terminal /\ orch.primary_outcome = "raised" /\ ~orch.has_fallback
    /\ orch.returned.error_message = MStr("timeout")
    /\ orch.returned.paper_id = "paper_b"

\* raw_response of the fallback's own result, '' when it was absent
FallbackRaw ==
    IF orch.fallback_result.raw_response.none THEN "" ELSE orch.fallback_result.raw_response.s
\* the note put before it
FallbackNote ==
    Prefix(orch.returned.raw_response.s, Len(orch.returned.raw_response.s) - Len(FallbackRaw))

\* C9: when the primary raises with message m and the fallback returns, the fallback's
\* result is returned with raw_response a note holding "FALLBACK ANALYSIS" and m,
\* followed by the fallback's own raw_response ('' when absent); every other field,
\* the status (completed for a fallback that succeeded) among them, is unchanged.
C9_FallbackAnnotated ==
    (Terminal /\ orch.primary_outcome = "raised" /\ orch.fallback_outcome = "returned") =>
        /\ \A f \in OtherFields : orch.returned[f] = orch.fallback_result[f]
        /\ orch.fallback_result.status = "completed" => orch.returned.status = "completed"
        /\ ~orch.returned.raw_response.none
        /\ Len(orch.returned.raw_response.s) >= Len(FallbackRaw)
        /\ orch.returned.raw_response.s = FallbackNote \o FallbackRaw
        /\ IsSubstring("FALLBACK ANALYSIS", FallbackNote)
        /\ IsSubstring(orch.primary_error, FallbackNote)

\* a completed fallback result with a raw response of its own was annotated
C9_Witness ==
    /\ Terminal /\ orch.primary_outcome = "raised" /\ orch.fallback_outcome = "returned"
    /\ orch.primary_error = "timeout"
    /\ orch.fallback_result.raw_response = MStr("{\"title\": \"T\"}")
    /\ orch.returned.status = "completed"
    /\ orch.returned.raw_response =
          MStr("FALLBACK ANALYSIS (Primary failed: timeout)\n\n{\"title\": \"T\"}")

\* C10: when the primary raises with message p and the fallback with message f, a
\* result with status failed is returned whose error_message holds "Primary: " then p
\* and "Fallback: " then f.
C10_DoubleFailure ==
    (Terminal /\ orch.primary_outcome = "raised" /\ orch.fallback_outcome = "raised") =>
        /\ orch.returned.status = "failed"
        /\ orch.returned.paper_id = orch.paper_id
        /\ ~orch.returned.error_message.none
        /\ IsSubstring("Primary: " \o orch.primary_error, orch.returned.error_message.s)
        /\ IsSubstring("Fallback: " \o orch.fallback_error, orch.returned.error_message.s)

C10_Witness ==
    /\ Terminal /\ orch.primary_outcome = "raised" /\ orch.fallback_outcome = "raised"
    /\ orch.primary_error = "timeout" /\ orch.fallback_error = "rate limit"
    /\ orch.returned.error_message = MStr("Primary: timeout, Fallback: rate limit")

\* C11: in every execution of the orchestrator the primary is invoked exactly once, the
\* fallback at most once and only after the primary's invocation raised, and exactly
\* one result is returned; an engine that has returned or raised is not invoked again.
C11_InvocationCounts ==
    /\ orch.primary_calls <= 1 /\ orch.fallback_calls <= 1 /\ orch.returns <= 1
    /\ orch.fallback_calls = 1 =>
          orch.primary_calls = 1 /\ orch.primary_outcome = "raised" /\ orch.has_fallback
    /\ orch.primary_outcome # "none" => orch.primary_calls = 1
    /\ orch.fallback_outcome # "none" => orch.fallback_calls = 1
    /\ Terminal <=> orch.returns = 1
    /\ Terminal => orch.primary_calls = 1 /\ orch.returned # NoAnalysis

\* both engines were invoked, each once, and one result came back
C11_Witness ==
    /\ Terminal /\ orch.primary_calls = 1 /\ orch.fallback_calls = 1 /\ orch.returns = 1
    /\ orch.primary_outcome = "raised" /\ orch.fallback_outcome = "raised"

\* the primary's analysis of the paper failed: its analyze_paper raised, or (as
\* AIAnalysisEngine.analyze_paper does on every exception) returned a failed analysis
PrimaryAnalysisFailed ==
    \/ orch.primary_outcome = "raised"
    \/ orch.primary_outcome = "returned" /\ orch.primary_result.status = "failed"

\* C12: whenever the primary engine's analysis of the paper fails and a fallback is
\* configured, the fallback has been invoked for the paper by the time a result is
\* returned.
C12_FallbackOnPrimaryFailure ==
    (Terminal /\ orch.has_fallback /\ PrimaryAnalysisFailed) => orch.fallback_calls = 1

(***************************************************************************)
(* AnalysisCommands.batch_analyze_papers: one coroutine per paper file,    *)
(* each run under `async with semaphore`, gathered with                    *)
(* return_exceptions=True.  The event loop interleaves the coroutines at   *)
(* their awaits (parse, analyze, save).                                    *)
(***************************************************************************)
MaxFiles == 3
MaxConcurrent == 2

\* sorted(paper_files): the i-th file of the directory
FileName(i) == "paper" \o ToString(i) \o ".txt"
\* Paper.id of the paper parsed from the file
PaperIdOf(file) == "paper_" \o file

\* the attributes a PaperAnalysis has (its dataclass fields)
PaperAnalysisFields ==
    {"id", "paper_id", "title", "summary", "problem", "solution", "limitations",
     "key_contributions", "research_significance", "status", "analysis_date", "metrics",
     "raw_response", "error_message", "prompt_version", "model_used"}

\* the attributes of the analysis _save_analysis reads, in the order it reads them
SaveReads ==
    <<"id", "paper_id", "title", "summary", "problem", "solution", "limitations",
      "key_contributions", "research_significance", "status", "model_used",
      "prompt_version", "created_at", "updated_at", "error_message", "metrics">>

\* _save_analysis: building analysis_dict raises AttributeError at the first attribute
\* the analysis does not have, reported as PaperAnalysisError; otherwise the file is written
SaveAnalysis(fields) ==
    LET missing == {p \in 1..Len(SaveReads) : SaveReads[p] \notin fields}
    IN  IF missing = {}
        THEN [raised |-> FALSE, msg |-> ""]
        ELSE [raised |-> TRUE,
              msg |-> "Failed to save analysis: 'PaperAnalysis' object has no attribute '"
                      \o SaveReads[Min(missing)] \o "'"]

\* _parse_paper's error for a file the registry cannot read
ParseErrorText(file) == "Failed to parse paper: File not found or not readable: " \o file

\* what self.orchestrator.analyze_paper(paper) may return for the file's paper
AnalysesOf(file) ==
    {Analysis(PaperIdOf(file), "T", "S", "completed", MStr("{\"title\": \"T\"}"), MNone),
     FailedAnalysis(PaperIdOf(file), "timeout")}

\* the outcome of one coroutine as gather records it
TaskPending == [kind |-> "none", analysis |-> NoAnalysis, msg |-> ""]
TaskReturned(a) == [kind |-> "analysis", analysis |-> a, msg |-> ""]
TaskRaised(m) == [kind |-> "exception", analysis |-> NoAnalysis, msg |-> m]

QueuedTask == [st |-> "queued", out |-> TaskPending, outstanding |-> 0]

\* the PaperAnalysis built for an item whose result is an exception
FailedItem(file, msg) == Analysis(file, "Failed: " \o file, "", "failed", MNone, MStr(msg))

\* the semaphore admits whoever asks, permit or not
CanAcquireAlways(value) == TRUE

\* asyncio.Semaphore.acquire proceeds without waiting while the value is positive
CanAcquire(value) == value > 0

\* the results taken in the order the coroutines finished
GatherInCompletionOrder(task, order) == [i \in 1..Len(order) |-> task[order[i]].out]

\* asyncio.gather: the i-th result is the outcome of the i-th awaitable given
Gather(task, order) == [i \in DOMAIN task |-> task[i].out]

\* the loop over enumerate(results)
ProcessResults(results) ==
    [i \in DOMAIN results |->
        IF results[i].kind = "exception"
        THEN FailedItem(FileName(i), results[i].msg)
        ELSE results[i].analysis]

\* the coroutines holding a permit
InFlight == {i \in DOMAIN batch.task : batch.task[i].st \in {"parsing", "analyzing", "saving"}}
Waiting == {i \in DOMAIN batch.task : batch.task[i].st = "queued"}

BatchInit ==
    /\ pc = "batch"
    /\ raw = ""
    /\ version = "EN_2_0"
    /\ obj = VNone
    /\ path = "none"
    /\ outcome = "none"
    /\ result = NoResult
    /\ conf = NoConf
    /\ status = "in_progress"
    /\ orch = NoOrch
    /\ retry = NoRetry /\ eng = NoEng /\ cli = NoCli
    /\ \E n \in 0..MaxFiles, c \in (0 - 1)..MaxConcurrent, od \in BOOLEAN :
          batch = [phase |-> "called", n |-> n, concurrent |-> c, output_dir |-> od,
                   value |-> 0, task |-> [i \in 1..n |-> QueuedTask],
                   order |-> << >>, analyses |-> << >>, error |-> ""]

BatchUnchanged ==
    UNCHANGED <<pc, raw, version, obj, path, outcome, result, conf, status, orch,
                retry, eng, cli>>

\* the files are found, the semaphore made and the coroutines handed to gather; an
\* empty directory or a negative bound raises inside the try and leaves the call as
\* PaperAnalysisError
StartBatch ==
    /\ batch.phase = "called"
    /\ IF batch.n = 0
       THEN batch' = [batch EXCEPT !.phase = "raised",
                        !.error = "Batch analysis failed: No paper files found in input_dir"]
       ELSE IF batch.concurrent < 0
       THEN batch' = [batch EXCEPT !.phase = "raised",
                        !.error = "Batch analysis failed: Semaphore initial value must be >= 0"]
       ELSE batch' = [batch EXCEPT !.phase = "gathering", !.value = batch.concurrent]
    /\ BatchUnchanged

\* one step of the coroutine of file i ends with outcome out: the permit is released
\* on the way out of `async with`, by return and by raise alike
Finish(i, out) ==
    batch' = [batch EXCEPT !.task[i] = [@ EXCEPT !.st = "done", !.out = out],
                           !.value = @ + 1,
                           !.order = Append(@, i)]

\* async with semaphore: the coroutine is admitted and awaits _parse_paper
Acquire(i) ==
    /\ batch.phase = "gathering"
    /\ batch.task[i].st = "queued"
    /\ CanAcquire(batch.value)
    /\ batch' = [batch EXCEPT !.task[i] = [@ EXCEPT !.st = "parsing",
                                                    !.outstanding = Cardinality(InFlight)],
                              !.value = @ - 1]
    /\ BatchUnchanged

\* _parse_paper returns the paper: orchestrator.analyze_paper is awaited
ParseReturns(i) ==
    /\ batch.phase = "gathering"
    /\ batch.task[i].st = "parsing"
    /\ batch' = [batch EXCEPT !.task[i].st = "analyzing"]
    /\ BatchUnchanged

\* _parse_paper raises: logged and raised again
ParseRaises(i) ==
    /\ batch.phase = "gathering"
    /\ batch.task[i].st = "parsing"
    /\ Finish(i, TaskRaised(ParseErrorText(FileName(i))))
    /\ BatchUnchanged

\* the orchestrator returns an analysis: returned at once when there is no output
\* directory, otherwise kept for _save_analysis
AnalyzeReturns(i) ==
    /\ batch.phase = "gathering"
    /\ batch.task[i].st = "analyzing"
    /\ \E a \in AnalysesOf(FileName(i)) :
          IF batch.output_dir
          THEN batch' = [batch EXCEPT !.task[i] = [@ EXCEPT !.st = "saving",
                                                            !.out = TaskReturned(a)]]
          ELSE Finish(i, TaskReturned(a))
    /\ BatchUnchanged

\* await self._save_analysis(analysis, output_path); return analysis
SaveStep(i) ==
    /\ batch.phase = "gathering"
    /\ batch.task[i].st = "saving"
    /\ LET saved == SaveAnalysis(PaperAnalysisFields)
       IN  IF saved.raised
           THEN Finish(i, TaskRaised(saved.msg))
           ELSE Finish(i, batch.task[i].out)
    /\ BatchUnchanged

\* every coroutine has finished: gather returns and the results are processed
GatherReturns ==
    /\ batch.phase = "gathering"
    /\ \A i \in DOMAIN batch.task : batch.task[i].st = "done"
    /\ batch' = [batch EXCEPT !.phase = "returned",
                              !.analyses = ProcessResults(Gather(batch.task, batch.order))]
    /\ BatchUnchanged

BatchNext ==
    \/ StartBatch
    \/ \E i \in DOMAIN batch.task : Acquire(i)
    \/ \E i \in DOMAIN batch.task : ParseReturns(i)
    \/ \E i \in DOMAIN batch.task : ParseRaises(i)
    \/ \E i \in DOMAIN batch.task : AnalyzeReturns(i)
    \/ \E i \in DOMAIN batch.task : SaveStep(i)
    \/ GatherReturns

SpecBatch == BatchInit /\ [][BatchNext]_vars

\* the event loop runs every coroutine that is ready: a step that stays possible is
\* eventually taken
SpecBatchFair == SpecBatch /\ WF_vars(BatchNext)

\* C13: with bound N = concurrent, no reachable state has more than N coroutines
\* between acquiring the semaphore and leaving `async with`; the semaphore's value is
\* N less the number in flight; and every coroutine that has started its work was
\* admitted while fewer than N were in flight.
C13_ConcurrencyBound ==
    batch.phase \in {"gathering", "returned"} =>
        /\ Cardinality(InFlight) <= batch.concurrent
        /\ batch.value = batch.concurrent - Cardinality(InFlight)
        /\ \A i \in DOMAIN batch.task :
              batch.task[i].st # "queued" => batch.task[i].outstanding < batch.concurrent

\* the bound is reached, one coroutine already saving, while a third waits
C13_Witness ==
    /\ batch.phase = "gathering" /\ batch.concurrent = 2
    /\ Cardinality(InFlight) = 2 /\ Waiting # {}
    /\ \E i \in InFlight : batch.task[i].st = "saving"

\* C14: whatever the order of completion, the list returned has one result per input
\* file and the result at index i is that of the i-th file: the analysis its coroutine
\* returned, or, when the coroutine raised, a failed result for that file carrying the
\* exception text; the call itself raises only before any coroutine has started.
C14_BatchOrdering ==
    /\ batch.phase = "returned" =>
          /\ DOMAIN batch.analyses = 1..batch.n
          /\ \A i \in 1..batch.n :
                LET out == batch.task[i].out
                    a == batch.analyses[i]
                IN  IF out.kind = "exception"
                    THEN /\ a.status = "failed"
                         /\ a.error_message = MStr(out.msg)
                         /\ a.paper_id = FileName(i)
                    ELSE /\ out.kind = "analysis"
                         /\ a = out.analysis
                         /\ a.paper_id = PaperIdOf(FileName(i))
    /\ batch.phase = "raised" => \A i \in DOMAIN batch.task : batch.task[i].st = "queued"

\* three files finished out of input order, the second by raising
C14_Witness ==
    /\ batch.phase = "returned" /\ batch.n = 3
    /\ batch.order = <<3, 2, 1>>
    /\ batch.task[2].out.kind = "exception"
    /\ batch.analyses[1].status = "completed" /\ batch.analyses[2].status = "failed"
    /\ batch.analyses[3].status = "completed"

\* C15: a waiting coroutine can always be admitted in due course: while any coroutine
\* waits for the semaphore, a permit is free or some coroutine holds one (and gives it
\* back when it ends, by return or by raise); and when the batch returns no coroutine
\* is in flight or waiting and every permit is back.
C15_BatchProgress ==
    /\ (batch.phase = "gathering" /\ Waiting # {}) => (batch.value > 0 \/ InFlight # {})
    /\ batch.phase = "returned" =>
          InFlight = {} /\ Waiting = {} /\ batch.value = batch.concurrent

(***************************************************************************)
(* BaseAIAdapter.with_retry(func): the wrapped call is the environment; it *)
(* returns a value or raises an exception each time it is awaited.         *)
(***************************************************************************)
DefaultMaxRetries == 3

\* what the wrapped call may return, and the messages of what it may raise
FuncValues == {"", "hello", "{}", "[1]", "{\"title\": \"T\"}"}
FuncErrors == {"timeout", "rate limit", "HTTP 500"}

\* a back-off growing by two seconds an attempt
WaitTimeLinear(attempt) == 2 * attempt

\* wait_time = 2 ** attempt
WaitTime(attempt) == 2 ^ attempt

\* a call of with_retry that has just been entered on an adapter with the given max_retries
RetryEntered(max_retries) ==
    [phase |-> "loop", max_retries |-> max_retries, attempt |-> 0, calls |-> 0,
     errors |-> << >>, sleeps |-> << >>, value |-> MNone, raised |-> MNone]

RetryInit ==
    /\ pc = "with_retry"
    /\ raw = ""
    /\ version = "EN_2_0"
    /\ obj = VNone
    /\ path = "none"
    /\ outcome = "none"
    /\ result = NoResult
    /\ conf = NoConf
    /\ status = "in_progress"
    /\ orch = NoOrch
    /\ eng = NoEng /\ batch = NoBatch /\ cli = NoCli
    /\ \E r \in 1..DefaultMaxRetries : retry = RetryEntered(r)

RetryUnchanged ==
    UNCHANGED <<pc, raw, version, obj, path, outcome, result, conf, status, orch,
                eng, batch, cli>>

\* for attempt in range(self.max_retries): ... await func(*args, **kwargs)
RetryCall ==
    /\ retry.phase = "loop"
    /\ retry.attempt < retry.max_retries
    /\ retry' = [retry EXCEPT !.phase = "calling", !.calls = @ + 1]
    /\ RetryUnchanged

\* the call returns: its value is returned
RetryFuncReturns ==
    /\ retry.phase = "calling"
    /\ \E v \in FuncValues :
          retry' = [retry EXCEPT !.phase = "returned", !.value = MStr(v)]
    /\ RetryUnchanged

\* the call raises e: last_error = e; asyncio.sleep(wait_time) is awaited when an
\* attempt is left, otherwise e is raised again
RetryFuncRaises ==
    /\ retry.phase = "calling"
    /\ \E e \in FuncErrors :
          IF retry.attempt < retry.max_retries - 1
          THEN retry' = [retry EXCEPT !.phase = "sleeping", !.errors = Append(@, e),
                                      !.sleeps = Append(@, WaitTime(retry.attempt))]
          ELSE retry' = [retry EXCEPT !.phase = "raised", !.errors = Append(@, e),
                                      !.raised = MStr(e)]
    /\ RetryUnchanged

\* the sleep ends: the loop goes to the next attempt
RetrySleepEnds ==
    /\ retry.phase = "sleeping"
    /\ retry' = [retry EXCEPT !.phase = "loop", !.attempt = @ + 1]
    /\ RetryUnchanged

RetryNext ==
    \/ RetryCall
    \/ RetryFuncReturns
    \/ RetryFuncRaises
    \/ RetrySleepEnds

SpecRetry == RetryInit /\ [][RetryNext]_vars

\* C16: with_retry awaits the wrapped call at most max_retries times; the first call
\* that returns ends it with that call's value (every call before it raised, none
\* follows it); the k-th failed attempt (k from 0) is followed by a sleep of 2^k
\* seconds unless it is the last one allowed; and after max_retries failures the last
\* attempt's error is raised with no sleep after it.
C16_RetryProtocol ==
    /\ retry.calls <= retry.max_retries
    /\ Len(retry.errors) <= retry.calls
    /\ \A k \in DOMAIN retry.sleeps : retry.sleeps[k] = 2 ^ (k - 1)
    /\ retry.phase = "returned" =>
          /\ ~retry.value.none
          /\ retry.calls = Len(retry.errors) + 1
          /\ Len(retry.sleeps) = Len(retry.errors)
          /\ retry.raised.none
    /\ retry.phase = "raised" =>
          /\ retry.calls = retry.max_retries
          /\ Len(retry.errors) = retry.max_retries
          /\ Len(retry.sleeps) = retry.max_retries - 1
          /\ retry.raised = MStr(retry.errors[retry.max_retries])
          /\ retry.value.none
    /\ retry.phase \in {"loop", "calling", "sleeping"} =>
          /\ retry.value.none /\ retry.raised.none
          /\ Len(retry.sleeps) = Len(retry.errors)
          /\ retry.calls =
                Len(retry.errors) + (IF retry.phase = "calling" THEN 1 ELSE 0)

\* three attempts with the default bound: sleeps of 1 and 2 seconds, then the third
\* attempt's error raised
C16_Witness ==
    /\ retry.phase = "raised" /\ retry.max_retries = 3 /\ retry.calls = 3
    /\ retry.sleeps = <<1, 2>>
    /\ retry.errors = <<"timeout", "rate limit", "HTTP 500">>
    /\ retry.raised = MStr("HTTP 500")

(***************************************************************************)
(* The analyze and batch-analyze commands of the CLI (main.py) over        *)
(* AnalysisCommands.analyze_paper / batch_analyze_papers: what is echoed   *)
(* and the exit code of the process.                                       *)
(***************************************************************************)
\* what batch_analyze_papers may hold at one index: an analysis the orchestrator
\* returned, or the failed item built for an exception of the parse or of the save
BatchItems(i) ==
    AnalysesOf(FileName(i))
    \cup {FailedItem(FileName(i), ParseErrorText(FileName(i))),
          FailedItem(FileName(i), SaveAnalysis(PaperAnalysisFields).msg)}

\* the lists batch_analyze_papers may return: one item for each of 1..MaxFiles files
BatchResults ==
    UNION {{r \in [1..n -> UNION {BatchItems(i) : i \in 1..n}] :
               \A i \in 1..n : r[i] \in BatchItems(i)} : n \in 1..MaxFiles}

\* the messages of the PaperAnalysisError batch_analyze_papers may raise
BatchErrors ==
    {"Batch analysis failed: No paper files found in input_dir",
     "Batch analysis failed: Semaphore initial value must be >= 0"}

CliInvoked(command, output) ==
    [phase |-> "invoked", command |-> command, output |-> output, results |-> << >>,
     error |-> MNone, echoed |-> << >>, exit_code |-> 0]

CliInit ==
    /\ pc = "cli"
    /\ raw = ""
    /\ version = "EN_2_0"
    /\ obj = VNone
    /\ path = "none"
    /\ outcome = "none"
    /\ result = NoResult
    /\ conf = NoConf
    /\ status = "in_progress"
    /\ orch = NoOrch
    /\ retry = NoRetry /\ eng = NoEng /\ batch = NoBatch
    /\ \E command \in {"analyze", "batch-analyze"}, output \in BOOLEAN :
          cli = CliInvoked(command, output)

CliUnchanged ==
    UNCHANGED <<pc, raw, version, obj, path, outcome, result, conf, status, orch,
                retry, eng, batch>>

\* except PaperAnalysisError as e: click.echo(f"Error: {e}"); sys.exit(1)
ExitOnError(e) ==
    cli' = [cli EXCEPT !.phase = "exited", !.error = MStr(e),
                       !.echoed = <<"Error: " \o e>>, !.exit_code = 1]

\* the line echoed for a result that is not completed
FailedLine(r) ==
    "Failed: " \o r.paper_id \o " - " \o (IF r.error_message.none THEN "None"
                                          ELSE r.error_message.s)

\* the lines of `for result in results: if result.status != COMPLETED: click.echo(...)`
RECURSIVE FailedLines(_)
FailedLines(results) ==
    IF results = << >> THEN << >>
    ELSE (IF Head(results).status # "completed" THEN <<FailedLine(Head(results))>>
          ELSE << >>) \o FailedLines(Tail(results))

\* analyze: commands.analyze_paper parses the input file and awaits the orchestrator
AnalyzeParseReturns ==
    /\ cli.phase = "invoked" /\ cli.command = "analyze"
    /\ cli' = [cli EXCEPT !.phase = "analyzing"]
    /\ CliUnchanged

\* analyze: _parse_paper raises; analyze_paper raises PaperAnalysisError
AnalyzeParseRaises ==
    /\ cli.phase = "invoked" /\ cli.command = "analyze"
    /\ ExitOnError("Failed to analyze paper: " \o ParseErrorText(FileName(1)))
    /\ CliUnchanged

\* analyze: the orchestrator returns r; with --output it is saved first, and a save
\* that raises makes analyze_paper raise; otherwise r is returned to the command,
\* which calls sys.exit(1) unless r is COMPLETED
AnalyzeCommandReturns ==
    /\ cli.phase = "analyzing"
    /\ \E r \in AnalysesOf(FileName(1)) :
          LET saved == SaveAnalysis(PaperAnalysisFields)
          IN  IF cli.output /\ saved.raised
              THEN ExitOnError("Failed to analyze paper: " \o saved.msg)
              ELSE cli' = [cli EXCEPT !.phase = "exited", !.results = <<r>>,
                             !.echoed = IF r.status = "completed"
                                        THEN <<"Analysis completed successfully!">>
                                        ELSE <<"Analysis failed: " \o r.error_message.s>>,
                             !.exit_code = IF r.status = "completed" THEN 0 ELSE 1]
    /\ CliUnchanged

\* batch-analyze: batch_analyze_papers raises PaperAnalysisError
BatchAnalyzeCommandRaises ==
    /\ cli.phase = "invoked" /\ cli.command = "batch-analyze"
    /\ \E e \in BatchErrors : ExitOnError(e)
    /\ CliUnchanged

\* batch-analyze: the list is returned, the count and the failed items are echoed and
\* the function ends: the process exits normally
BatchAnalyzeCommandReturns ==
    /\ cli.phase = "invoked" /\ cli.command = "batch-analyze"
    /\ \E rs \in BatchResults :
          LET successful == Cardinality({i \in DOMAIN rs : rs[i].status = "completed"})
          IN  cli' = [cli EXCEPT !.phase = "exited", !.results = rs,
                        !.echoed = <<"Batch analysis completed: " \o ToString(successful)
                                       \o "/" \o ToString(Len(rs))
                                       \o " papers analyzed successfully">>
                                   \o FailedLines(rs),
                        !.exit_code = 0]
    /\ CliUnchanged

CliNext ==
    \/ AnalyzeParseReturns
    \/ AnalyzeParseRaises
    \/ AnalyzeCommandReturns
    \/ BatchAnalyzeCommandRaises
    \/ BatchAnalyzeCommandReturns

SpecCli == CliInit /\ [][CliNext]_vars

\* a failure was reported: a result with a status other than completed came back, or
\* the command raised
FailureReported ==
    \/ ~cli.error.none
    \/ \E i \in DOMAIN cli.results : cli.results[i].status # "completed"

\* C19: when the analyze or batch-analyze command has ended, its exit code is 1 if a
\* failure was reported (for batch-analyze: some item's status is not completed) and 0
\* only if none was.
C19_ExitCode ==
    cli.phase = "exited" =>
        /\ FailureReported => cli.exit_code = 1
        /\ cli.exit_code = 0 => ~FailureReported

(***************************************************************************)
(* Run-time options: from AnalysisCommands.analyze_paper /                  *)
(* batch_analyze_papers through Settings and the DIContainer to the        *)
(* adapter and the engine that perform the analysis.                       *)
(***************************************************************************)
DefaultPromptVersion == "EN_2_0"
DefaultMaxPaperLength == 128000
TruncationNote == "\n\n[Note: Paper truncated due to length limitations]"

\* an Optional[int] argument
IntOpt(n) == [none |-> FALSE, n |-> n]
NoInt == [none |-> TRUE, n |-> 0]

\* `if model:` / `if prompt_version:` / `if max_length:`
GivenStr(o) == ~o.none /\ o.s # ""
GivenInt(o) == ~o.none /\ o.n # 0

\* Settings.to_dict(): four sections, each the __dict__ of its dataclass (so the
\* sections show the settings as they are when read)
ToDict(settings) ==
    [section \in {"ai", "analysis", "logging", "storage"} |->
        IF section = "ai" THEN [model |-> settings.model]
        ELSE IF section = "analysis"
             THEN [prompt_version |-> settings.prompt_version,
                   max_paper_length |-> settings.max_paper_length]
             ELSE [other |-> ""]]

\* dict.get(key, default)
ConfigGet(config, key, default) == IF key \in DOMAIN config THEN config[key] ELSE default

\* self.prompts.get(version, self.prompts['EN_2_0'])
PromptFor(v) == IF v \in {"EN", "EN_2_0", "ZH", "ZH_2_0"} THEN v ELSE "EN_2_0"

\* ToolsLoader.get_tools_for_analysis
ToolsVersion(prompt_version) == IF EndsWith(prompt_version, "_2_0") THEN "2.0" ELSE "1.0"

\* content[:max_length] + note when the content is longer than max_length
Truncate(content, max_length) ==
    IF Len(content) > max_length
    THEN SubSeq(content, 1, max_length) \o TruncationNote
    ELSE content

PaperContents == {"short", Rep("paper text ", 3)}
OptionModels == {MNone, MStr(""), MStr("gpt-4o-mini")}
OptionVersions == {MNone, MStr("EN"), MStr("ZH_2_0")}
OptionLengths == {NoInt, IntOpt(0), IntOpt(10)}

NotAnalysed ==
    [model |-> "", model_used |-> "", prompt_version |-> "", prompt |-> "",
     tools_version |-> "", content |-> ""]

OptionsInit ==
    /\ pc = "options"
    /\ raw = ""
    /\ version = "EN_2_0"
    /\ obj = VNone
    /\ path = "none"
    /\ outcome = "none"
    /\ result = NoResult
    /\ conf = NoConf
    /\ status = "in_progress"
    /\ orch = NoOrch
    /\ retry = NoRetry /\ eng = NoEng /\ batch = NoBatch
    /\ \E command \in {"analyze_paper", "batch_analyze_papers"},
          pv \in {"EN_2_0", "EN"}, content \in PaperContents,
          om \in OptionModels, ov \in OptionVersions, ol \in OptionLengths :
          cli = [phase |-> "initialized", command |-> command,
                 settings |-> [model |-> "gpt-4o", prompt_version |-> pv,
                               max_paper_length |-> DefaultMaxPaperLength],
                 options |-> [model |-> om, prompt_version |-> ov, max_length |-> ol],
                 content |-> content,
                 adapter_model |-> "", used |-> NotAnalysed]

\* AnalysisCommands.__init__: create_orchestrator makes the engine, and with it the
\* adapter, from the settings as they are now
CreateCommands ==
    /\ cli.phase = "initialized"
    /\ cli' = [cli EXCEPT !.phase = "created", !.adapter_model = cli.settings.model]
    /\ CliUnchanged

\* analyze_paper / batch_analyze_papers: update config with runtime options
SetRuntimeOptions ==
    /\ cli.phase = "created"
    /\ cli' = [cli EXCEPT
          !.phase = "configured",
          !.settings.model =
              IF GivenStr(cli.options.model) THEN cli.options.model.s ELSE @,
          !.settings.prompt_version =
              IF GivenStr(cli.options.prompt_version)
              THEN cli.options.prompt_version.s ELSE @,
          !.settings.max_paper_length =
              IF GivenInt(cli.options.max_length) THEN cli.options.max_length.n ELSE @]
    /\ CliUnchanged

\* AIAnalysisEngine.analyze_paper as the orchestrator calls it: what it records, which
\* prompt and tools it takes, what content it sends and the model the adapter requests
EngineAnalyzes ==
    /\ cli.phase = "configured"
    /\ LET config == ToDict(cli.settings)
           pv == ConfigGet(config, "prompt_version", DefaultPromptVersion)
           max_length == ConfigGet(config, "max_paper_length", DefaultMaxPaperLength)
       IN  cli' = [cli EXCEPT
              !.phase = "analyzed",
              !.used = [model |-> cli.adapter_model,
                        model_used |-> cli.adapter_model,
                        prompt_version |-> pv,
                        prompt |-> PromptFor(pv),
                        tools_version |-> ToolsVersion(pv),
                        content |-> Truncate(cli.content, max_length)]]
    /\ CliUnchanged

OptionsNext ==
    \/ CreateCommands
    \/ SetRuntimeOptions
    \/ EngineAnalyzes

SpecOptions == OptionsInit /\ [][OptionsNext]_vars

\* C20: the options given to analyze_paper / batch_analyze_papers are used by the
\* analysis of that call: a model M is the model the adapter requests and the result
\* records; a prompt version V selects the prompt and tool schema of V and is recorded
\* as prompt_version; with a length L, content longer than L is cut to its first L
\* characters.
C20_OptionsTakeEffect ==
    cli.phase = "analyzed" =>
        /\ GivenStr(cli.options.model) =>
              /\ cli.used.model = cli.options.model.s
              /\ cli.used.model_used = cli.options.model.s
        /\ GivenStr(cli.options.prompt_version) =>
              /\ cli.used.prompt_version = cli.options.prompt_version.s
              /\ cli.used.prompt = cli.options.prompt_version.s
              /\ cli.used.tools_version = ToolsVersion(cli.options.prompt_version.s)
        /\ (GivenInt(cli.options.max_length) /\ Len(cli.content) > cli.options.max_length.n) =>
              cli.used.content =
                  SubSeq(cli.content, 1, cli.options.max_length.n) \o TruncationNote

(***************************************************************************)
(* PaperAnalysis and the metrics it derives from its fields:               *)
(* __post_init__ calls _calculate_metrics once, at construction.  A score  *)
(* that the code keeps as a float is the fraction num / den here.          *)
(***************************************************************************)
FilledFieldMin == 10
TechnicalTerms == {"method", "algorithm", "approach", "technique", "framework"}
TechnicalIndicators == {"architecture", "algorithm", "framework", "model", "dataset",
                        "accuracy", "performance", "efficiency", "optimization",
                        "evaluation"}
UpperLetters == "ABCDEFGHIJKLMNOPQRSTUVWXYZ"
LowerLetters == "abcdefghijklmnopqrstuvwxyz"

\* str.lower()
RECURSIVE Lower(_)
Lower(s) ==
    IF Len(s) = 0 THEN ""
    ELSE IF Len(s) = 1
    THEN LET at == {i \in 1..Len(UpperLetters) : Ch(UpperLetters, i) = s}
         IN  IF at = {} THEN s ELSE Ch(LowerLetters, Min(at))
    ELSE Lower(SubSeq(s, 1, Len(s) \div 2)) \o Lower(SubSeq(s, Len(s) \div 2 + 1, Len(s)))

\* the fields of a PaperAnalysis that its metrics are derived from
AnalysisFields(title, summary, problem, solution, limitations, contributions, significance) ==
    [title |-> title, summary |-> summary, problem |-> problem, solution |-> solution,
     limitations |-> limitations, key_contributions |-> contributions,
     research_significance |-> significance]

\* f"{field}"
Formatted(m) == IF m.none THEN "None" ELSE m.s

\* len(text.split())
SplitLength(text) ==
    Cardinality({i \in 1..Len(text) :
                    /\ Ch(text, i) \notin Whitespace
                    /\ (i = 1 \/ Ch(text, i - 1) \in Whitespace)})

GetTotalWordCount(f) ==
    LET six == Formatted(f.title) \o " " \o Formatted(f.summary) \o " "
                 \o Formatted(f.problem) \o " " \o Formatted(f.solution) \o " "
                 \o Formatted(f.limitations) \o " " \o Formatted(f.key_contributions)
    IN  SplitLength(IF Formatted(f.research_significance) # "" /\ ~f.research_significance.none
                    THEN six \o " " \o f.research_significance.s
                    ELSE six)

\* filled_fields / len(fields)
CompletenessScore(f) ==
    LET fields == {"title", "summary", "problem", "solution", "limitations",
                   "key_contributions"}
                  \cup (IF ~f.research_significance.none /\ f.research_significance.s # ""
                        THEN {"research_significance"} ELSE {})
        filled == {name \in fields :
                      ~f[name].none /\ f[name].s # ""
                          /\ Len(Strip(f[name].s)) > FilledFieldMin}
    IN  [num |-> Cardinality(filled), den |-> Cardinality(fields)]

\* all_text.split('.')
SplitOnDot(text) ==
    LET cuts == {0} \cup Positions(text, ".") \cup {Len(text) + 1}
    IN  {SubSeq(text, a + 1, Min({b \in cuts : b > a}) - 1) : a \in cuts \ {Len(text) + 1}}

\* the number of the terms that occur in text.lower()
TermsFound(terms, text) == Cardinality({t \in terms : IsSubstring(Lower(t), Lower(text))})

CalculateCoherenceScore(f) ==
    LET all_text == Formatted(f.title) \o " " \o Formatted(f.summary) \o " "
                      \o Formatted(f.problem) \o " " \o Formatted(f.solution)
        sentences == {s \in SplitOnDot(all_text) : Len(Strip(s)) > FilledFieldMin}
    IN  IF sentences = {}
        THEN [num |-> 0, den |-> 1]
        ELSE [num |-> Min({Cardinality(TechnicalTerms),
                           TermsFound(TechnicalTerms, all_text)}),
              den |-> Cardinality(TechnicalTerms)]

EstimateTechnicalDepth(f) ==
    LET all_text == Formatted(f.solution) \o " " \o Formatted(f.key_contributions)
    IN  [num |-> Min({Cardinality(TechnicalIndicators),
                      TermsFound(TechnicalIndicators, all_text)}),
         den |-> Cardinality(TechnicalIndicators)]

\* _calculate_metrics: what the four derived metrics are for the fields f
CalculateMetrics(f) ==
    [word_count |-> GetTotalWordCount(f),
     completeness_score |-> CompletenessScore(f),
     coherence_score |-> CalculateCoherenceScore(f),
     technical_depth_score |-> EstimateTechnicalDepth(f)]

\* AnalysisMetrics(): the defaults of the dataclass
DefaultMetrics ==
    [word_count |-> 0, completeness_score |-> [num |-> 0, den |-> 1],
     coherence_score |-> [num |-> 0, den |-> 1],
     technical_depth_score |-> [num |-> 0, den |-> 1]]

\* two fractions that are the same float
SameScore(a, b) == a.num * b.den = b.num * a.den

SameMetrics(a, b) ==
    /\ a.word_count = b.word_count
    /\ SameScore(a.completeness_score, b.completeness_score)
    /\ SameScore(a.coherence_score, b.coherence_score)
    /\ SameScore(a.technical_depth_score, b.technical_depth_score)

\* the fields of PaperAnalysis(id="", paper_id=paper.id, title="", summary="", ...)
EmptyFields == AnalysisFields(MStr(""), MStr(""), MStr(""), MStr(""), MStr(""), MStr(""), MNone)

\* the fields of the failed analysis the except clause constructs
FailedFields ==
    AnalysisFields(MStr("Analysis Failed"), MStr(""), MStr(""), MStr(""), MStr(""),
                   MStr(""), MNone)

\* the metrics __post_init__ derives for the analysis the engine constructs
EmptyMetrics == CalculateMetrics(EmptyFields)

\* the metrics __post_init__ derives for the failed analysis
FailedMetrics == CalculateMetrics(FailedFields)

\* parsed_result.get(key, default)
MappingGet(m, key, default) == IF key \in DOMAIN m THEN m[key] ELSE default

\* the fields the engine assigns from the parsed result
AssignedFields(parsed_result) ==
    AnalysisFields(MappingGet(parsed_result, "title", MStr("Untitled Paper")),
                   MappingGet(parsed_result, "summary", MStr("")),
                   MappingGet(parsed_result, "problem", MStr("")),
                   MappingGet(parsed_result, "solution", MStr("")),
                   MappingGet(parsed_result, "limitations", MStr("")),
                   MappingGet(parsed_result, "key_contributions", MStr("")),
                   MappingGet(parsed_result, "research_significance", MNone))

(***************************************************************************)
(* AIAnalysisEngine.analyze_paper over an OpenAIAdapter or a               *)
(* DeepSeekAdapter: the credential check, the schema-constrained call,     *)
(* the adapter's and the engine's fall-backs, each request going through   *)
(* with_retry, then the parse of the generated text and the result         *)
(* returned.  What the provider answers or raises is the environment.      *)
(***************************************************************************)
MinKeyLength == 10

Providers == {"openai", "deepseek"}
ApiKeys == {"", "short", "123456789", "1234567890", "sk-0123456789"}

\* validate_api_key
ValidateApiKey(api_key) == api_key # "" /\ Len(api_key) >= MinKeyLength

\* the name the adapter puts in front of a provider error
ProviderName(provider) == IF provider = "openai" THEN "OpenAI" ELSE "DeepSeek"

\* json.dumps(v) with the default separators; the strings of the modelled responses
\* hold no quote, backslash, control or non-ASCII character, so none is escaped
RECURSIVE JsonDumps(_)
RECURSIVE DumpElems(_, _)
RECURSIVE DumpMembers(_, _, _)
DumpElems(xs, i) ==
    IF i > Len(xs) THEN ""
    ELSE JsonDumps(xs[i]) \o (IF i < Len(xs) THEN ", " ELSE "") \o DumpElems(xs, i + 1)
DumpMembers(ks, vs, i) ==
    IF i > Len(ks) THEN ""
    ELSE "\"" \o ks[i] \o "\": " \o JsonDumps(vs[i])
         \o (IF i < Len(ks) THEN ", " ELSE "") \o DumpMembers(ks, vs, i + 1)
JsonDumps(v) ==
    CASE v.k = "str"  -> "\"" \o v.s \o "\""
      [] v.k = "int"  -> ToString(v.n)
      [] v.k = "null" -> "null"
      [] v.k = "bool" -> IF v.b THEN "true" ELSE "false"
      [] v.k = "list" -> "[" \o DumpElems(v.items, 1) \o "]"
      [] v.k = "dict" -> "{" \o DumpMembers(v.keys, v.vals, 1) \o "}"

\* what a call returned or raised: [raised, exc, text, v]; every raise of the adapters
\* and of _generate_analysis is an AIServiceError with the text as its message
CallRaised(text) == [raised |-> TRUE, exc |-> "AIServiceError", text |-> text, v |-> VNone]
CallReturnedText(text) == [raised |-> FALSE, exc |-> "", text |-> text, v |-> VNone]
CallReturnedValue(v) == [raised |-> FALSE, exc |-> "", text |-> "", v |-> v]

\* the function data held by a message with a function call
FunctionData(arguments) ==
    VDict(<<"name", "arguments">>, <<VStr("analyze_paper"), VStr(arguments)>>)

\* the end of _extract_function_call once the response is loaded (data, ~data.ok
\* when it is no JSON): [ok, v], ~ok is None
FunctionCallOf(data) ==
    IF data.ok /\ data.v.k = "dict" /\ HasKey(data.v, "name")
       /\ HasKey(data.v, "arguments") /\ Get(data.v, "arguments").k = "str"
    THEN JsonLoads(Get(data.v, "arguments").s)
    ELSE [ok |-> FALSE, v |-> VNone]

\* _extract_function_call on what _extract_content made of the message: the dumped
\* function data for a function call, the content otherwise
ExtractFunctionCall(fc, text) ==
    FunctionCallOf(IF fc THEN [ok |-> TRUE, v |-> FunctionData(text)] ELSE JsonLoads(text))

\* try: return a / except: return b, on [ok, v]
OrElse(a, b) == IF a.ok THEN a ELSE b

\* _extract_json_from_response of the DeepSeek adapter: [ok, v], ~ok is the AIServiceError
ExtractJsonFromResponse(text) == OrElse(JsonLoads(text), ExtractJsonFromText(text))

\* OpenAIAdapter.generate_structured_response on what generate_response(prompt, tools)
\* returned or raised, with function_data = _extract_function_call(response) and
\* whole = json.loads(response): the function data when it is true, otherwise the
\* loaded response
OpenAIStructured(call, fc, function_data, whole) ==
    IF call.raised THEN call
    ELSE IF function_data.ok /\ Truthy(function_data.v) THEN CallReturnedValue(function_data.v)
    ELSE IF fc THEN CallReturnedValue(FunctionData(call.text))
    ELSE IF whole.ok THEN CallReturnedValue(whole.v)
    ELSE CallRaised("Unable to parse structured response")

\* the first half of DeepSeekAdapter.generate_structured_response: the function data
\* when the call returned and it is true; otherwise (raised here) the JSON prompt follows
DeepSeekFunctionCall(call, function_data) ==
    IF call.raised THEN call
    ELSE IF function_data.ok /\ Truthy(function_data.v) THEN CallReturnedValue(function_data.v)
    ELSE CallRaised("no function data")

\* the second half of DeepSeekAdapter.generate_structured_response, on what the call
\* with the JSON prompt returned or raised and parsed = _extract_json_from_response
DeepSeekJsonPrompt(call, parsed) ==
    IF call.raised
    THEN CallRaised("Failed to generate structured response: " \o call.text)
    ELSE IF parsed.ok THEN CallReturnedValue(parsed.v)
    ELSE CallRaised("Failed to generate structured response: "
                    \o "No valid JSON found in response")

\* a _generate_analysis that raises when the plain answer holds no JSON
PlainResultRequiringJson(call, parsed) ==
    IF call.raised THEN CallRaised("Failed to generate analysis: " \o call.text)
    ELSE IF parsed.ok THEN CallReturnedText(JsonDumps(parsed.v))
    ELSE CallRaised("Failed to generate analysis: No valid JSON found in text")

\* the end of _generate_analysis on what the plain call returned or raised and
\* parsed = _extract_json_from_text: the dumped JSON found in the text, the text
\* itself when there is none, or the AIServiceError
PlainResult(call, parsed) ==
    IF call.raised THEN CallRaised("Failed to generate analysis: " \o call.text)
    ELSE IF parsed.ok THEN CallReturnedText(JsonDumps(parsed.v))
    ELSE CallReturnedText(call.text)

\* the engine's state at the entry of analyze_paper(paper)
EngineEntered(provider, api_key, max_retries, function_calling, paper_id) ==
    [phase |-> "entered", provider |-> provider, api_key |-> api_key,
     max_retries |-> max_retries,
     function_calling |-> function_calling, paper_id |-> paper_id,
     order |-> << >>, ended |-> << >>, structured |-> "not attempted",
     requests |-> 0, error |-> "", escaped |-> FALSE,
     returns |-> 0, returned |-> NoAnalysis, fields |-> EmptyFields,
     metrics |-> DefaultMetrics]

EngineInit ==
    /\ pc = "analyze"
    /\ raw = ""
    /\ version \in Versions
    /\ obj = VNone
    /\ path = "none"
    /\ outcome = "none"
    /\ result = NoResult
    /\ conf = NoConf
    /\ status = "in_progress"
    /\ orch = NoOrch
    /\ retry = NoRetry /\ batch = NoBatch /\ cli = NoCli
    /\ \E provider \in Providers, api_key \in ApiKeys, function_calling \in BOOLEAN,
          max_retries \in 1..DefaultMaxRetries, paper_id \in PaperIds :
          eng = EngineEntered(provider, api_key, max_retries, function_calling, paper_id)

\* generate_response handing the request to with_retry whatever the key
NewCallUnvalidated == RetryEntered(eng.max_retries)

\* generate_response is entered: with a key that fails validate_api_key it raises at
\* once, otherwise the request is handed to with_retry
NewCall == IF ValidateApiKey(eng.api_key) THEN RetryEntered(eng.max_retries) ELSE NoRetry

\* the call of generate_response has returned or raised
CallEnded == ~ValidateApiKey(eng.api_key) \/ retry.phase \in {"returned", "raised"}

\* what generate_response returned or raised: the content of the message, or the
\* AIServiceError of the key check or of the failed request
CallOutcome ==
    IF ~ValidateApiKey(eng.api_key) THEN CallRaised("Invalid API key")
    ELSE IF retry.phase = "raised"
         THEN CallRaised(ProviderName(eng.provider) \o " API error: " \o retry.raised.s)
         ELSE CallReturnedText(retry.value.s)

\* the requests the ended call has sent to the provider
CallRequests == IF retry.phase = "idle" THEN 0 ELSE retry.calls

\* the outcomes of the calls of generate_response that have ended, in order
EndedCalls ==
    IF eng.phase \in {"structured", "json_prompt", "plain"}
    THEN Append(eng.ended, CallOutcome) ELSE eng.ended

\* the engine once the current call has ended and the call of the given kind is entered
Entering(kind) ==
    [eng EXCEPT !.phase = kind, !.order = Append(@, kind), !.ended = EndedCalls,
                !.requests = @ + CallRequests,
                !.structured = IF kind = "structured" THEN "pending"
                               ELSE IF kind = "plain" /\ @ = "pending" THEN "raised"
                               ELSE @]

\* _generate_analysis returns the text
Generated(text) ==
    /\ raw' = text
    /\ pc' = "start"
    /\ eng' = [eng EXCEPT !.phase = "generated", !.ended = EndedCalls,
                          !.requests = @ + CallRequests,
                          !.structured = IF @ = "pending" THEN "returned" ELSE @]
    /\ retry' = NoRetry
    /\ UNCHANGED <<version, obj, path, outcome, result, conf, status, orch, batch, cli>>

\* the next call of generate_response is entered
NextCall(kind) ==
    /\ eng' = Entering(kind)
    /\ retry' = NewCall
    /\ UNCHANGED <<pc, raw, version, obj, path, outcome, result, conf, status, orch,
                   batch, cli>>

\* analyze_paper up to the first call of _generate_analysis: the analysis is constructed
\* with empty fields, its metrics derived in __post_init__; then the schema-constrained
\* call when function calling is enabled (a tool schema exists for every version),
\* the plain call otherwise
EngineStart ==
    /\ pc = "analyze"
    /\ pc' = "generating"
    /\ eng' = [Entering(IF eng.function_calling THEN "structured" ELSE "plain")
                  EXCEPT !.fields = EmptyFields, !.metrics = EmptyMetrics]
    /\ retry' = NewCall
    /\ UNCHANGED <<raw, version, obj, path, outcome, result, conf, status, orch, batch, cli>>

\* a schema-constrained call that is made again when it has raised
StructuredContinuesRepeating(r, kind) ==
    IF r.raised THEN NextCall(eng.phase) ELSE Generated(JsonDumps(r.v))

\* the schema-constrained call r has ended: its value dumped is the generated text,
\* or the call of the given kind follows
StructuredContinues(r, kind) ==
    IF r.raised THEN NextCall(kind) ELSE Generated(JsonDumps(r.v))

\* generate_response(prompt, tools) inside generate_structured_response has ended; the
\* message it got holds a function call or content
StructuredEnds ==
    /\ pc = "generating" /\ eng.phase = "structured" /\ CallEnded
    /\ \E fc \in BOOLEAN :
          StructuredContinues(
              IF eng.provider = "openai"
              THEN OpenAIStructured(CallOutcome, fc,
                                    ExtractFunctionCall(fc, CallOutcome.text),
                                    JsonLoads(CallOutcome.text))
              ELSE DeepSeekFunctionCall(CallOutcome,
                                        ExtractFunctionCall(fc, CallOutcome.text)),
              IF eng.provider = "openai" THEN "plain" ELSE "json_prompt")

\* generate_response(json_prompt) of the DeepSeek adapter has ended
JsonPromptEnds ==
    /\ pc = "generating" /\ eng.phase = "json_prompt" /\ CallEnded
    /\ StructuredContinues(
           DeepSeekJsonPrompt(CallOutcome, ExtractJsonFromResponse(CallOutcome.text)),
           "plain")

\* _generate_analysis ends with r: the AIServiceError is raised or the text returned
PlainContinues(r) ==
    IF r.raised
    THEN /\ pc' = "raised"
         /\ outcome' = "AIServiceError"
         /\ eng' = [eng EXCEPT !.phase = "failed", !.error = r.text,
                               !.ended = EndedCalls, !.requests = @ + CallRequests]
         /\ retry' = NoRetry
         /\ UNCHANGED <<raw, version, obj, path, result, conf, status, orch, batch, cli>>
    ELSE Generated(r.text)

\* generate_response(prompt) of the engine has ended
PlainEnds ==
    /\ pc = "generating" /\ eng.phase = "plain" /\ CallEnded
    /\ PlainContinues(PlainResult(CallOutcome, ExtractJsonFromText(CallOutcome.text)))

\* the fields are assigned, the status set, the confidence score computed and the
\* analysis returned; _calculate_metrics is not called again
EngineUpdate ==
    /\ pc = "parsed"
    /\ conf' = CalculateConfidenceScore(result)
    /\ status' = "completed"
    /\ pc' = "done"
    /\ eng' = [eng EXCEPT !.returns = @ + 1,
                          !.fields = AssignedFields(result),
                          !.returned = Analysis(eng.paper_id, result["title"].s,
                                                result["summary"].s, "completed",
                                                MStr(raw), MNone)]
    /\ UNCHANGED <<raw, version, obj, path, outcome, result, orch, retry, batch, cli>>

\* an except clause that lets everything but the service's errors through
CatchesServiceErrorsOnly(exc) == exc = "AIServiceError"

\* except Exception as e
Catches(exc) == TRUE

\* str(e): the message of the AIServiceError; the interpreter's wording of an
\* AttributeError or TypeError is stood for by the name of the exception
ErrorText == IF outcome = "AIServiceError" THEN eng.error ELSE outcome

\* the exception reaches the except clause of analyze_paper: the failed analysis with
\* error_message = str(e) is returned
EngineExcept ==
    /\ pc = "raised"
    /\ IF Catches(outcome)
       THEN /\ status' = "failed"
            /\ pc' = "done"
            /\ eng' = [eng EXCEPT !.returns = @ + 1,
                                  !.fields = FailedFields,
                                  !.metrics = FailedMetrics,
                                  !.returned = FailedAnalysis(eng.paper_id, ErrorText)]
       ELSE /\ status' = status
            /\ pc' = "escaped"
            /\ eng' = [eng EXCEPT !.escaped = TRUE]
    /\ UNCHANGED <<raw, version, obj, path, outcome, result, conf, orch, retry, batch, cli>>

EngineNext ==
    \/ EngineStart
    \/ RetryCall
    \/ RetryFuncReturns
    \/ RetryFuncRaises
    \/ RetrySleepEnds
    \/ StructuredEnds
    \/ JsonPromptEnds
    \/ PlainEnds
    \/ ParseStep
    \/ EngineUpdate
    \/ EngineExcept

SpecEngine == EngineInit /\ [][EngineNext]_vars

\* analyze_paper has ended: it returned an analysis or an exception left it
EngineEnded == pc \in {"done", "escaped"}

\* C17: a credential that is missing or malformed is detected before the first
\* provider request and reported as an AnalysisConfigurationError: the exception in
\* flight is not an AIServiceError and the call does not end in a failed analysis.
C17_CredentialIsConfigurationError ==
    (~ValidateApiKey(eng.api_key) /\ pc \in {"raised", "done", "escaped"}) =>
        /\ eng.requests = 0
        /\ outcome = "AnalysisConfigurationError"
        /\ status # "failed"

\* a step of analyze_paper is possible: the guards of the actions of EngineNext
EngineCanStep ==
    \/ pc \in {"analyze", "start", "parsed", "raised"}
    \/ /\ pc = "generating"
       /\ eng.phase \in {"structured", "json_prompt", "plain"}
       /\ \/ CallEnded
          \/ retry.phase \in {"calling", "sleeping"}
          \/ retry.phase = "loop" /\ retry.attempt < retry.max_retries

\* C18: analyze_paper never raises: no exception leaves it, it returns exactly once,
\* the analysis returned is for the paper it was given and is completed or failed,
\* and a failed analysis carries the text of the exception in error_message; until
\* it has returned the call can always take a step.
C18_EngineNeverRaises ==
    /\ ~eng.escaped
    /\ pc # "escaped"
    /\ eng.returns <= 1
    /\ pc = "done" <=> eng.returns = 1
    /\ pc # "done" => eng.returned = NoAnalysis /\ EngineCanStep
    /\ pc = "done" =>
          /\ eng.returned.paper_id = eng.paper_id
          /\ eng.returned.status \in {"completed", "failed"}
          /\ eng.returned.status = status
          /\ eng.returned.status = "completed" =>
                /\ outcome = "mapping"
                /\ eng.returned.error_message = MNone
                /\ eng.returned.raw_response = MStr(raw)
          /\ eng.returned.status = "failed" =>
                /\ outcome \in {"AIServiceError", "AttributeError", "TypeError"}
                /\ ~eng.returned.error_message.none
                /\ eng.returned.error_message.s # ""
                /\ eng.returned.error_message.s = ErrorText
                /\ outcome = "AIServiceError" =>
                      \E call \in {"Invalid API key"} \cup
                                  {ProviderName(eng.provider) \o " API error: " \o e :
                                      e \in FuncErrors} :
                         eng.returned.error_message.s = "Failed to generate analysis: " \o call

\* the DeepSeek provider raises on every attempt of all three calls: nine requests,
\* then the failed analysis with the last error's text
C18_Witness ==
    /\ pc = "done" /\ status = "failed" /\ eng.returns = 1
    /\ eng.provider = "deepseek"
    /\ eng.order = <<"structured", "json_prompt", "plain">>
    /\ eng.requests = 9
    /\ eng.returned = FailedAnalysis(eng.paper_id,
                         "Failed to generate analysis: DeepSeek API error: HTTP 500")

(***************************************************************************)
(* The save step of the batch (SpecBatch).                                 *)
(***************************************************************************)
\* C21: with an output directory, every paper the orchestrator returned an analysis
\* for (every file whose parse did not fail) is represented in the returned list by
\* that analysis, status unchanged: the save step writes it and hands it on, and never
\* turns it into a failed item.
C21_SaveKeepsResult ==
    (batch.phase = "returned" /\ batch.output_dir) =>
        \A i \in DOMAIN batch.analyses :
            batch.analyses[i].error_message # MStr(ParseErrorText(FileName(i))) =>
                batch.analyses[i] \in AnalysesOf(FileName(i))

(***************************************************************************)
(* BaseAnalysisEngine.batch_analyze and AnalysisOrchestrator.batch_analyze *)
(* (core/analyzer.py): one analyze_paper coroutine per paper, all handed   *)
(* to asyncio.gather, which starts every one of them.  An engine's         *)
(* analyze_paper returns an analysis or raises; the orchestrator's         *)
(* analyze_paper always returns one.                                       *)
(***************************************************************************)
MaxPapers == 4
DefaultConcurrent == 3

\* paper.id of the i-th paper of the list
PaperIdAt(i) == "paper_" \o ToString(i)

\* what analyze_paper may return for the i-th paper
ResultsAt(i) ==
    {Analysis(PaperIdAt(i), "T", "S", "completed", MStr("{\"title\": \"T\"}"), MNone),
     FailedAnalysis(PaperIdAt(i), "timeout")}

\* the loop over zip(papers, results) of BaseAnalysisEngine.batch_analyze: a result
\* that is no exception is appended; the failed analysis built for an exception is not
ProcessedResults(results) ==
    LET kept == {i \in DOMAIN results : results[i].kind # "exception"}
        nth[k \in 0..Len(results)] ==
            IF k = 0 THEN << >>
            ELSE IF k \in kept THEN Append(nth[k - 1], results[k].analysis)
            ELSE nth[k - 1]
    IN  nth[Len(results)]

\* the coroutines whose analyze_paper has started and not ended
Running == {i \in DOMAIN batch.task : batch.task[i].st = "running"}

GatherInit ==
    /\ pc = "batch_analyze"
    /\ raw = ""
    /\ version = "EN_2_0"
    /\ obj = VNone
    /\ path = "none"
    /\ outcome = "none"
    /\ result = NoResult
    /\ conf = NoConf
    /\ status = "in_progress"
    /\ orch = NoOrch
    /\ retry = NoRetry /\ eng = NoEng /\ cli = NoCli
    /\ \E n \in 0..MaxPapers, callee \in {"engine", "orchestrator"} :
          batch = [phase |-> "called", callee |-> callee, n |-> n,
                   task |-> [i \in 1..n |-> [st |-> "created", out |-> TaskPending]],
                   peak |-> 0, analyses |-> << >>, error |-> ""]

\* tasks = [self.analyze_paper(paper) for paper in papers]; gather wraps each in a task
GatherCalled ==
    /\ batch.phase = "called"
    /\ batch' = [batch EXCEPT !.phase = "gathering"]
    /\ BatchUnchanged

\* the event loop starts the i-th task: analyze_paper runs to its first await
TaskStarts(i) ==
    /\ batch.phase = "gathering"
    /\ batch.task[i].st = "created"
    /\ batch' = [batch EXCEPT !.task[i].st = "running",
                              !.peak = IF Cardinality(Running) + 1 > @
                                       THEN Cardinality(Running) + 1 ELSE @]
    /\ BatchUnchanged

\* analyze_paper of the i-th paper returns an analysis
TaskReturns(i) ==
    /\ batch.phase = "gathering"
    /\ batch.task[i].st = "running"
    /\ \E a \in ResultsAt(i) :
          batch' = [batch EXCEPT !.task[i] = [st |-> "done", out |-> TaskReturned(a)]]
    /\ BatchUnchanged

\* an engine's analyze_paper raises
TaskRaises(i) ==
    /\ batch.phase = "gathering"
    /\ batch.callee = "engine"
    /\ batch.task[i].st = "running"
    /\ batch' = [batch EXCEPT !.task[i] = [st |-> "done", out |-> TaskRaised("timeout")]]
    /\ BatchUnchanged

\* every task is done: gather returns the outcomes in the order of the papers; the
\* engine processes them, the orchestrator returns them as they are
GatherDone ==
    /\ batch.phase = "gathering"
    /\ \A i \in DOMAIN batch.task : batch.task[i].st = "done"
    /\ batch' = [batch EXCEPT
                    !.phase = "returned",
                    !.analyses = IF batch.callee = "engine"
                                 THEN ProcessedResults([i \in DOMAIN batch.task |->
                                                           batch.task[i].out])
                                 ELSE [i \in DOMAIN batch.task |->
                                          batch.task[i].out.analysis]]
    /\ BatchUnchanged

GatherNext ==
    \/ GatherCalled
    \/ \E i \in DOMAIN batch.task : TaskStarts(i)
    \/ \E i \in DOMAIN batch.task : TaskReturns(i)
    \/ \E i \in DOMAIN batch.task : TaskRaises(i)
    \/ GatherDone

SpecGather == GatherInit /\ [][GatherNext]_vars

\* C22: BaseAnalysisEngine.batch_analyze returns one result per input paper in input
\* order, a failed result with the exception text for a paper whose analyze_paper
\* raised: the list returned is as long as the list given.
C22_OneResultPerPaper ==
    (batch.phase = "returned" /\ batch.callee = "engine") =>
        /\ Len(batch.analyses) = batch.n
        /\ \A i \in 1..batch.n :
              /\ batch.analyses[i].paper_id = PaperIdAt(i)
              /\ batch.task[i].out.kind = "exception" =>
                    batch.analyses[i] = FailedAnalysis(PaperIdAt(i), batch.task[i].out.msg)
              /\ batch.task[i].out.kind = "analysis" =>
                    batch.analyses[i] = batch.task[i].out.analysis

\* C23: AnalysisOrchestrator.batch_analyze never has more analyze_paper invocations
\* in flight than the concurrency bound (3 by default).
C23_OrchestratorBatchBound ==
    batch.callee = "orchestrator" =>
        Cardinality(Running) <= DefaultConcurrent /\ batch.peak <= DefaultConcurrent

(***************************************************************************)
(* The calls of one analysis (SpecEngine): credential check, generation    *)
(* order and provider traffic.                                             *)
(***************************************************************************)
InvalidKey == CallRaised("Invalid API key")
CallPhases == {"structured", "json_prompt", "plain"}

\* C24: with a key that is empty or shorter than 10 characters, generate_response
\* and generate_structured_response of both adapters raise AIServiceError with no
\* request sent to the provider and with_retry (so any back-off sleep) never entered.
C24_InvalidKeyNoRequest ==
    ~ValidateApiKey(eng.api_key) =>
        /\ retry = NoRetry
        /\ eng.requests = 0 /\ CallRequests = 0
        /\ \A k \in DOMAIN eng.ended : eng.ended[k] = InvalidKey
        /\ eng.phase \in CallPhases =>
              CallEnded /\ CallOutcome = InvalidKey /\ CallOutcome.exc = "AIServiceError"
        /\ (eng.phase = "structured" /\ eng.provider = "openai") =>
              \A fc \in BOOLEAN :
                 OpenAIStructured(CallOutcome, fc, ExtractFunctionCall(fc, CallOutcome.text),
                                  JsonLoads(CallOutcome.text)) = InvalidKey
        /\ (eng.phase = "structured" /\ eng.provider = "deepseek") =>
              \A fc \in BOOLEAN :
                 DeepSeekFunctionCall(CallOutcome,
                                      ExtractFunctionCall(fc, CallOutcome.text)).raised
        /\ eng.phase = "json_prompt" =>
              DeepSeekJsonPrompt(CallOutcome, ExtractJsonFromResponse(CallOutcome.text))
                 = CallRaised("Failed to generate structured response: Invalid API key")
        /\ eng.structured # "returned"
        /\ raw = "" /\ pc \notin {"start", "parsed"}

\* a key of nine characters on the DeepSeek adapter: the function call and the JSON
\* prompt have both raised at the key check, the plain call is entered, nothing was sent
C24_Witness ==
    /\ eng.api_key = "123456789" /\ eng.provider = "deepseek"
    /\ eng.phase = "plain"
    /\ eng.order = <<"structured", "json_prompt", "plain">>
    /\ eng.ended = <<InvalidKey, InvalidKey>>
    /\ eng.requests = 0 /\ retry = NoRetry

\* what the calls that ended show whenever generate_structured_response of the
\* adapter has raised: for OpenAI the call raised or its text is no JSON, for DeepSeek
\* the call with the JSON prompt raised or no JSON is found in its answer
StructuredRaised ==
    IF eng.provider = "openai"
    THEN /\ Len(eng.ended) >= 1
         /\ eng.order[1] = "structured"
         /\ eng.ended[1].raised \/ ~JsonLoads(eng.ended[1].text).ok
    ELSE /\ Len(eng.ended) >= 2
         /\ eng.order[2] = "json_prompt"
         /\ eng.ended[2].raised \/ ~ExtractJsonFromResponse(eng.ended[2].text).ok

\* the last call entered and what it ended with
LastKind == eng.order[Len(eng.order)]
LastEnded == eng.ended[Len(eng.ended)]

\* C25: with function calling enabled the schema-constrained call comes before any
\* plain call; the plain call is made only when function calling is disabled or the
\* schema-constrained call has raised, and nothing follows it; AIServiceError leaves
\* _generate_analysis only when the plain call itself raised; a plain answer is
\* returned, as the dumped JSON found in it or, when it holds none, as the raw text.
C25_GenerationOrder ==
    /\ (eng.function_calling /\ eng.order # << >>) => eng.order[1] = "structured"
    /\ ~eng.function_calling => \A k \in DOMAIN eng.order : eng.order[k] = "plain"
    /\ \A k \in DOMAIN eng.order :
          eng.order[k] = "plain" =>
              /\ k = Len(eng.order)
              /\ ~eng.function_calling \/ StructuredRaised
    /\ eng.structured = "returned" => \A k \in DOMAIN eng.order : eng.order[k] # "plain"
    /\ (pc = "raised" /\ outcome = "AIServiceError") =>
          /\ eng.phase = "failed"
          /\ Len(eng.ended) = Len(eng.order)
          /\ LastKind = "plain" /\ LastEnded.raised
          /\ eng.error = "Failed to generate analysis: " \o LastEnded.text
    /\ (eng.phase = "generated" /\ LastKind = "plain") =>
          /\ ~LastEnded.raised
          /\ outcome # "AIServiceError"
          /\ raw = IF ExtractJsonFromText(LastEnded.text).ok
                   THEN JsonDumps(ExtractJsonFromText(LastEnded.text).v)
                   ELSE LastEnded.text

\* OpenAI answers the schema-constrained call with free text, so the adapter raises;
\* the plain call follows and its free text is the text generated
C25_Witness ==
    /\ eng.provider = "openai" /\ eng.function_calling
    /\ eng.order = <<"structured", "plain">>
    /\ eng.ended = <<CallReturnedText("hello"), CallReturnedText("hello")>>
    /\ eng.phase = "generated" /\ raw = "hello"
    /\ pc = "done" /\ status = "completed" /\ path = "degraded"

\* C30: one analyze_paper makes a bounded number of provider requests: each call of
\* generate_response sends at most max_retries = R, the calls are the schema-
\* constrained one, the JSON prompt (DeepSeek only) and the plain one, each at most
\* once, so at most 2R requests through OpenAI and 3R through DeepSeek (6 and 9 with
\* R = 3); and until it has returned the call can take a step.
C30_BoundedRequests ==
    LET R == eng.max_retries
        total == eng.requests + CallRequests
        kinds == IF eng.provider = "openai" THEN <<"structured", "plain">>
                 ELSE <<"structured", "json_prompt", "plain">>
    IN  /\ \A j, k \in DOMAIN eng.order : eng.order[j] = eng.order[k] => j = k
        /\ \A k \in DOMAIN eng.order : \E j \in DOMAIN kinds : eng.order[k] = kinds[j]
        /\ Len(eng.order) <= Len(kinds)
        /\ CallRequests <= R
        /\ total <= R * Len(eng.order)
        /\ total <= R * Len(kinds)
        /\ (R = 3 /\ eng.provider = "openai") => total <= 6
        /\ (R = 3 /\ eng.provider = "deepseek") => total <= 9
        /\ pc = "done" => CallRequests = 0 /\ eng.returns = 1
        /\ pc # "done" => EngineCanStep

\* OpenAI fails every attempt of both calls: six requests, then the analysis returned
C30_Witness ==
    /\ eng.provider = "openai" /\ eng.max_retries = 3
    /\ eng.order = <<"structured", "plain">>
    /\ eng.requests = 6
    /\ pc = "done" /\ eng.returns = 1 /\ status = "failed"

(***************************************************************************)
(* The degraded result and the synthesized summary (SpecNorm).             *)
(***************************************************************************)
\* the first line of the text that is not empty once stripped, stripped ("" if none)
RECURSIVE FirstNonEmptyLine(_)
FirstNonEmptyLine(text) ==
    IF Strip(FirstLine(text)) # "" THEN Strip(FirstLine(text))
    ELSE IF Positions(text, "\n") = {} \/ Min(Positions(text, "\n")) = Len(text) THEN ""
    ELSE FirstNonEmptyLine(SubSeq(text, Min(Positions(text, "\n")) + 1, Len(text)))

\* C26: on the degraded path the title is the first non-empty line of the response
\* cut to 100 characters, also when the response begins with blank lines; the summary
\* is the response, cut to its first 500 characters (and marked) when longer; problem,
\* solution, limitations and key_contributions hold their fixed placeholders.
C26_DegradedResult ==
    (Parsed /\ path = "degraded") =>
        /\ FirstNonEmptyLine(raw) # "" =>
              result["title"] = MStr(Prefix(FirstNonEmptyLine(raw), 100))
        /\ result["summary"] = MStr(IF Len(raw) > 500 THEN Prefix(raw, 500) \o "..." ELSE raw)
        /\ result["problem"] = MStr("Unable to extract specific problem statement")
        /\ result["solution"] = MStr("Unable to extract specific solution")
        /\ result["limitations"] = MStr("Unable to extract limitations")
        /\ result["key_contributions"] = MStr("Unable to extract contributions")

\* C27: the confidence score computed for a mapping of the degraded path is strictly
\* below 1.0 (score < total), for every response.
C27_DegradedLowerConfidence ==
    (pc = "done" /\ status = "completed" /\ path = "degraded") => conf.score < conf.total

\* the value resolved for the field from the response, or the generic phrase
ResolvedOr(field, generic) ==
    IF PresentAliases(field) # {} THEN result[field].s ELSE generic

\* C28: when no summary alias is present the summary is "This paper addresses P using
\* S." with P and S the resolved problem and solution (also from alias keys such as
\* research_problem or methodology), the generic phrase only for a field that could
\* not be resolved from the response.
C28_SummaryFromResolvedFields ==
    (Normalised /\ PresentAliases("summary") = {}) =>
        result["summary"] = MStr("This paper addresses "
                                 \o ResolvedOr("problem", "a research challenge")
                                 \o " using "
                                 \o ResolvedOr("solution", "a novel approach") \o ".")

\* C29: the derived metrics follow the fields: word_count, completeness_score,
\* coherence_score and technical_depth_score of the analysis analyze_paper returns are
\* the values derived from the fields the returned analysis has.
C29_MetricsFollowFields ==
    pc = "done" => SameMetrics(eng.metrics, CalculateMetrics(eng.fields))

\* a failed analysis is returned: its metrics were derived from the fields it has
C29_FailedMetricsFollow ==
    (pc = "done" /\ status = "failed") =>
        SameMetrics(eng.metrics, CalculateMetrics(eng.fields))

\* a completed analysis is returned with the metrics of the empty fields
C29_StaleMetrics ==
    (pc = "done" /\ status = "completed") =>
        /\ eng.metrics = EmptyMetrics
        /\ eng.metrics.word_count = 0
        /\ GetTotalWordCount(eng.fields) > 0
====
